---------------------------- MODULE Spec2Model ----------------------------
(***************************************************************************)
(* Model of the press-release ingestion pipeline of presswatch-app:        *)
(* the per-source scrapers (get*PR*.py), their shared master store         *)
(* press_releases_master.csv and its readers.                              *)
(*                                                                         *)
(* The master store is a CSV file that every scraper reads whole with      *)
(* pandas.read_csv and rewrites whole with DataFrame.to_csv.               *)
(***************************************************************************)
EXTENDS Integers, Sequences, FiniteSets, TLC

VARIABLES
    file,       \* press_releases_master.csv as it is on disk
    pre,        \* the file as it was before the last save_to_master call
    lastIn,     \* df_new of the last save_to_master call
    scraper,    \* the script (one source's scraper) that is run
    outcome,    \* how the last save_to_master call ended
    repeated,   \* the last call was given the same df_new as the call before it
    wpc,        \* concurrent runs: where each script is in its save_to_master
    wdf,        \* concurrent runs: the df_new each script holds
    wout,       \* concurrent runs: the lines each script's to_csv is writing
    woff,       \* concurrent runs: how many of them have reached the file
    observed,   \* what the reader last read from the file
    complete,   \* the complete stores: the first one and every to_csv's output
    crawler,    \* a crawl: the paginating script that runs
    site,       \* a crawl: the records the source lists, newest page first
    cpc,        \* a crawl: where main() is
    pageNo,     \* a crawl: the page being requested or evaluated
    itemNo,     \* a crawl: the record of that page evaluated next
    all_rows,   \* a crawl: the rows main() has collected
    seen_links, \* a crawl: the links main() has seen
    requests,   \* a crawl: the page requests made so far
    evaluated,  \* a crawl: the records evaluated so far
    oldSeen,    \* a crawl: a record dated before the cutoff has been evaluated
    fetchFailed, \* a crawl: a request has failed
    endless,    \* a crawl: the source answers every page request with a page
    attempt,    \* get_page with retries: the requests made for the page
    waits,      \* get_page with retries: the sleeps made for the page
    runlog,     \* scheduled runs: the runs that ended before this one
    nd_in,      \* normalize_date: the argument of the call
    nd_out,     \* normalize_date: how the call ended
    dpc,        \* a downstream program: where it is
    ddf,        \* a downstream program: the frame df it holds
    didx,       \* the summarizer: the row of its loop
    shown,      \* the dashboard and the digest: the records they show
    file0       \* the file as it was when the downstream program started

mergeVars == <<pre, lastIn, scraper, outcome, repeated>>
concVars == <<wpc, wdf, wout, woff, observed, complete>>
crawlVars == <<crawler, site, cpc, pageNo, itemNo, all_rows, seen_links,
               requests, evaluated, oldSeen, fetchFailed>>
runVars == <<endless, attempt, waits, runlog>>
dateVars == <<nd_in, nd_out>>
downVars == <<dpc, ddf, didx, shown, file0>>
vars == <<file, mergeVars, concVars, crawlVars, runVars, dateVars, downVars>>

---------------------------------------------------------------------------
(* Bounds of the model. *)

MaxRows == 3    \* rows the store may hold
MaxBatch == 2   \* records in one df_new
MaxItems == 3   \* records a source lists
PageSize == 2   \* records a source shows on one page
MaxPages == 3   \* pages of an endless source told apart

---------------------------------------------------------------------------
(* Cells, rows and the CSV file. *)

\* The float NaN pandas uses for a missing value (not a string of the file).
NaN == "<float NaN>"

\* The texts pandas.read_csv reads as missing (its default na_values).
NA_VALUES == {"", "#N/A", "#N/A N/A", "#NA", "-1.#IND", "-1.#QNAN", "-NaN",
              "-nan", "1.#IND", "1.#QNAN", "<NA>", "N/A", "NA", "NULL", "NaN",
              "None", "n/a", "nan", "null"}

\* read_csv on one text cell.
ReadCell(c) == IF c \in NA_VALUES THEN NaN ELSE c

\* to_csv on one value: a missing value is written as the empty text.
WriteCell(v) == IF v = NaN THEN "" ELSE v

ReadRow(r) ==
    [id |-> r.id, company |-> ReadCell(r.company), title |-> ReadCell(r.title),
     link |-> ReadCell(r.link), date |-> ReadCell(r.date),
     fetched_at |-> r.fetched_at,
     summary_ai |-> ReadCell(r.summary_ai),
     impact_for_zhone |-> ReadCell(r.impact_for_zhone)]

WriteRow(r) ==
    [id |-> r.id, company |-> WriteCell(r.company), title |-> WriteCell(r.title),
     link |-> WriteCell(r.link), date |-> WriteCell(r.date),
     fetched_at |-> r.fetched_at,
     summary_ai |-> WriteCell(r.summary_ai),
     impact_for_zhone |-> WriteCell(r.impact_for_zhone)]

MapSeq(F(_), s) == [i \in 1..Len(s) |-> F(s[i])]

\* The file does not exist.
NoFile == [exists |-> FALSE, header |-> FALSE, rows |-> <<>>]

\* The file holds the header line and no row.
HeaderOnly == [exists |-> TRUE, header |-> TRUE, rows |-> <<>>]

\* pd.read_csv(MASTER_FILE): a file with no header line raises EmptyDataError.
read_csv(f) ==
    IF f.header THEN [ok |-> TRUE, df |-> MapSeq(ReadRow, f.rows)]
    ELSE [ok |-> FALSE, df |-> <<>>]

\* df.to_csv(MASTER_FILE, index=False): the whole frame replaces the file.
to_csv(df) == [exists |-> TRUE, header |-> TRUE, rows |-> MapSeq(WriteRow, df)]

\* A headline saved from a Windows editor: its e-acute is the one byte E9 of
\* cp1252, which is no UTF-8; and the same headline as UTF-8 text.
Cp1252Title == "R<E9>sultats"
Utf8Title == "R<C3><A9>sultats"

\* The file holds a byte sequence that is no UTF-8.
Undecodable(f) == \E i \in 1..Len(f.rows) : f.rows[i].title = Cp1252Title

\* The UTF-8 headline read as latin-1 and written as UTF-8: "RÃ©sultats".
MojibakeTitle == "R<C3><83><C2><A9>sultats"

\* A cell decoded as latin-1: every byte is a character.
Latin1(cell) ==
    IF cell = Cp1252Title THEN Utf8Title
    ELSE IF cell = Utf8Title THEN MojibakeTitle
    ELSE cell

ReadRowLatin1(r) == ReadRow([r EXCEPT !.title = Latin1(r.title)])

\* pd.read_csv(MASTER_FILE, encoding="latin-1")
read_csv_latin1(f) ==
    IF f.header THEN [ok |-> TRUE, df |-> MapSeq(ReadRowLatin1, f.rows)]
    ELSE [ok |-> FALSE, df |-> <<>>]

\* load_master() of getCienaPR2025.py (also Calix, Ekinops, Huawei, Ribbon,
\* Smartoptics, ZTE): an absent file gives an empty frame; UnicodeDecodeError
\* of the UTF-8 read leads to a latin-1 read.
load_master(f) ==
    IF ~f.exists THEN [ok |-> TRUE, df |-> <<>>]
    ELSE IF f.header /\ Undecodable(f) THEN read_csv_latin1(f)
    ELSE read_csv(f)

\* load_master() of getAdtranPRPages1To5.py (also Nokia, Zhone): one read in
\* the default encoding, UTF-8; UnicodeDecodeError is not caught.
load_master_plain(f) ==
    IF ~f.exists THEN [ok |-> TRUE, df |-> <<>>]
    ELSE IF f.header /\ Undecodable(f) THEN [ok |-> FALSE, df |-> <<>>]
    ELSE read_csv(f)


---------------------------------------------------------------------------
(* save_to_master: the merge of df_new into the store. *)

\* The deduplication key, on=["company", "title"].
Key(r) == <<r.company, r.title>>

\* The rows of master that pd.merge joins to the left row r.
Matches(r, master) == {i \in 1..Len(master) : Key(master[i]) = Key(r)}

\* pd.merge(df_new, master[["company","title"]], on=["company","title"],
\* how="left", indicator=True): the left rows in their order, a left row with
\* no match once as "left_only", a left row with n matches n times as "both".
RECURSIVE pd_merge(_, _)
pd_merge(df_new, master) ==
    IF df_new = <<>> THEN <<>>
    ELSE LET r == Head(df_new)
             n == Cardinality(Matches(r, master))
         IN  (IF n = 0
              THEN <<[row |-> r, indicator |-> "left_only"]>>
              ELSE [i \in 1..n |-> [row |-> r, indicator |-> "both"]])
             \o pd_merge(Tail(df_new), master)

IsLeftOnly(m) == m.indicator = "left_only"
RowOf(m) == m.row

\* merged[merged["_merge"] == "left_only"].drop(columns="_merge")
only_new(df_new, master) ==
    MapSeq(RowOf, SelectSeq(pd_merge(df_new, master), IsLeftOnly))

\* pd.merge raises ValueError when a key column of the right frame is float64
\* (every value of it was read as NaN) while the left one holds strings.
merge_raises(df_new, master) ==
    /\ df_new # <<>>
    /\ master # <<>>
    /\ \/ \A i \in 1..Len(master) : master[i].title = NaN
       \/ \A i \in 1..Len(master) : master[i].company = NaN

\* What save_to_master decides before it writes: how the call ends and, when
\* it ends in a write, the frame it writes.
Plan(o, df) == [outcome |-> o, updated |-> df]

\* A save_to_master without the df_new.empty test.
save_shortcut_no_empty_test(df_new, f) ==
    LET m == load_master(f) IN
    IF ~m.ok THEN Plan("raised", <<>>)
    ELSE IF m.df = <<>> THEN Plan("written", df_new)
    ELSE IF merge_raises(df_new, m.df) THEN Plan("raised", <<>>)
    ELSE Plan("written", m.df \o only_new(df_new, m.df))

\* save_to_master of getCienaPR2025.py (also Calix, Ekinops, Huawei, Ribbon,
\* Smartoptics) up to its to_csv: the master.empty shortcut, and a write on
\* every path that gets past the df_new.empty test.
save_shortcut(df_new, f) ==
    IF df_new = <<>> THEN Plan("empty", <<>>)
    ELSE LET m == load_master(f) IN
         IF ~m.ok THEN Plan("raised", <<>>)
         ELSE IF m.df = <<>> THEN Plan("written", df_new)
         ELSE IF merge_raises(df_new, m.df) THEN Plan("raised", <<>>)
         ELSE Plan("written", m.df \o only_new(df_new, m.df))

\* What the plain variant does once master is loaded.
merge_plain(df_new, master) ==
    IF merge_raises(df_new, master) THEN Plan("raised", <<>>)
    ELSE IF only_new(df_new, master) = <<>> THEN Plan("nonew", <<>>)
    ELSE Plan("written", master \o only_new(df_new, master))

\* save_to_master of getAdtranPRPages1To5.py (also Nokia, Zhone) up to its
\* to_csv: no shortcut, and no write when only_new is empty.
save_plain(df_new, f) ==
    IF df_new = <<>> THEN Plan("empty", <<>>)
    ELSE LET m == load_master_plain(f) IN
         IF ~m.ok THEN Plan("raised", <<>>)
         ELSE merge_plain(df_new, m.df)

\* save_to_master of getZTEPR2025.py up to its to_csv: as the plain variant,
\* but the store is loaded before df_new.empty is tested.
save_loadfirst(df_new, f) ==
    LET m == load_master(f) IN
    IF ~m.ok THEN Plan("raised", <<>>)
    ELSE IF df_new = <<>> THEN Plan("empty", <<>>)
    ELSE merge_plain(df_new, m.df)

\* The scripts, by their COMPANY constant.
Scripts == {"Ciena", "Adtran", "ZTE"}

\* The scripts whose save_to_master is the one of getCienaPR2025.py.
ShortcutScripts ==
    {"Ciena", "Calix", "Ekinops", "Huawei", "Ribbon Communications",
     "Smartoptics"}

merge_plan(script, df_new, f) ==
    CASE script \in ShortcutScripts -> save_shortcut(df_new, f)
      [] script = "ZTE" -> save_loadfirst(df_new, f)
      [] OTHER -> save_plain(df_new, f)

Result(f, o) == [file |-> f, outcome |-> o]

\* updated.to_csv(MASTER_FILE, ...): the one write of save_to_master.
Commit(plan, f) ==
    IF plan.outcome = "written" THEN Result(to_csv(plan.updated), "written")
    ELSE Result(f, plan.outcome)

\* A whole save_to_master call that nothing else interleaves with.
save_to_master(script, df_new, f) == Commit(merge_plan(script, df_new, f), f)

---------------------------------------------------------------------------
(* The records a script's main() hands to save_to_master. *)

\* Headlines a listing may show; a headline may be blank.
Titles == {"Q1 Results", "New Product", ""}

\* A crawl run: it fixes the time of the fetch and what the site showed.
Stamps == {1, 2}

LinkOf(title, stamp) ==
    IF stamp = 1 THEN "https://site/pr/a" ELSE "https://site/pr/b"

\* Ciena's and ZTE's main() keep only records whose date parsed to an ISO
\* date; Adtran's keeps whatever text extract_date returned, which for a
\* <time> element without a date in its text is its datetime attribute as it
\* is written, here N/A.
DateOf(script, stamp) ==
    IF stamp = 1 THEN "2025-03-01"
    ELSE IF script = "Adtran" THEN "N/A" ELSE "2025-04-01"

\* rows.append({...}) of main(): the derived columns are absent from df_new,
\* which pd.concat fills with NaN.
NewRow(script, title, stamp, id) ==
    [id |-> id, company |-> script, title |-> title,
     link |-> LinkOf(title, stamp), date |-> DateOf(script, stamp),
     fetched_at |-> stamp, summary_ai |-> NaN, impact_for_zhone |-> NaN]

Ids(rows) == {rows[i].id : i \in 1..Len(rows)}

\* str(uuid.uuid4()): an id no stored row carries.
UsedIds == Ids(file.rows)

RECURSIVE FreshIds(_, _)
FreshIds(n, used) ==
    IF n = 0 THEN <<>>
    ELSE LET id == CHOOSE k \in 1..(Cardinality(used) + 1) : k \notin used
         IN  <<id>> \o FreshIds(n - 1, used \cup {id})

TitleSeqs == UNION {[1..n -> Titles] : n \in 0..MaxBatch}

DataFrame(script, titles, stamp) ==
    LET ids == FreshIds(Len(titles), UsedIds)
    IN  [i \in 1..Len(titles) |-> NewRow(script, titles[i], stamp, ids[i])]

---------------------------------------------------------------------------
(* The store under a sequence of save_to_master calls. *)

Call(df_new) ==
    /\ Len(file.rows) + Len(df_new) <= MaxRows
    /\ \E res \in {save_to_master(scraper, df_new, file)} :
           /\ file' = res.file
           /\ outcome' = res.outcome
    /\ pre' = file
    /\ lastIn' = df_new
    /\ UNCHANGED <<scraper, concVars, crawlVars, runVars, dateVars, downVars>>

\* The script's main() reaches save_to_master(df_new).
Save ==
    \E stamp \in Stamps, titles \in TitleSeqs :
        /\ Call(DataFrame(scraper, titles, stamp))
        /\ repeated' = FALSE

\* The same df_new is merged a second time in a row.
SaveAgain ==
    /\ outcome # "none"
    /\ Call(lastIn)
    /\ repeated' = TRUE

\* A row another source's scraper stored earlier, summarized since by
\* summarize_press_releases_external.py.
NokiaRow ==
    [id |-> 1, company |-> "Nokia", title |-> "Q1 Results",
     link |-> "https://nokia/pr/q1", date |-> "2025-01-15", fetched_at |-> 1,
     summary_ai |-> "Nokia reports Q1.", impact_for_zhone |-> "Moderate."]

\* No concurrent run is modelled.
IdleConc ==
    /\ wpc = <<>>
    /\ wdf = <<>>
    /\ wout = <<>>
    /\ woff = <<>>
    /\ observed = NoFile
    /\ complete = {}

\* No crawl is modelled.
IdleCrawl ==
    /\ crawler = "Ekinops"
    /\ site = <<>>
    /\ cpc = "done"
    /\ pageNo = 1
    /\ itemNo = 1
    /\ all_rows = <<>>
    /\ seen_links = {}
    /\ requests = 0
    /\ evaluated = 0
    /\ oldSeen = FALSE
    /\ fetchFailed = FALSE

\* One run of a script against a source whose listing ends, its get_page
\* taken as one step.
IdleRun ==
    /\ endless = FALSE
    /\ attempt = 0
    /\ waits = <<>>
    /\ runlog = <<>>

\* No dashboard, digest or summarizer is modelled.
IdleDown ==
    /\ dpc = "idle"
    /\ ddf = <<>>
    /\ didx = 1
    /\ shown = <<>>
    /\ file0 = NoFile

\* No call of normalize_date is modelled on its own.
IdleDates ==
    /\ nd_in = <<>>
    /\ nd_out = <<>>

\* No sequence of whole calls is modelled.
IdleMerge ==
    /\ pre = NoFile
    /\ lastIn = <<>>
    /\ scraper = "Ciena"
    /\ outcome = "none"
    /\ repeated = FALSE

InitMerge ==
    /\ file \in {NoFile, HeaderOnly, to_csv(<<NokiaRow>>)}
    /\ scraper \in Scripts
    /\ pre = file
    /\ lastIn = <<>>
    /\ outcome = "none"
    /\ repeated = FALSE
    /\ IdleConc
    /\ IdleCrawl
    /\ IdleRun
    /\ IdleDates
    /\ IdleDown

NextMerge == Save \/ SaveAgain

SpecMerge == InitMerge /\ [][NextMerge]_vars

---------------------------------------------------------------------------
(* Claims about the merge, checked under SpecMerge. *)

IsPrefix(s, t) == Len(s) <= Len(t) /\ SubSeq(t, 1, Len(s)) = s

KeysOf(rows) == {Key(rows[i]) : i \in 1..Len(rows)}

DistinctKeys(rows) ==
    \A i, j \in 1..Len(rows) : i # j => Key(rows[i]) # Key(rows[j])

\* A save_to_master call has run.
Called == outcome # "none"

\* The rows the last call added after the rows that were there.
Appended == SubSeq(file.rows, Len(pre.rows) + 1, Len(file.rows))

\* C1: the persisted store never holds two rows with the same
\* (company, title) pair, whatever batches the save_to_master calls are given.
C1_DedupKeyIntegrity == DistinctKeys(file.rows)

\* C2: every save_to_master call leaves the rows that were in the store in
\* place: the store before the call is a prefix of the store after it, every
\* field of those rows unchanged.
C2_ExistingRowsUnchanged == Called => IsPrefix(pre.rows, file.rows)

\* C3: merging the same batch a second time in a row leaves the store as the
\* first merge left it.
C3_MergeIdempotent == repeated => file = pre

\* C4: for a store and a batch that each have pairwise distinct keys, the
\* store's keys after the call are the keys before it together with the
\* batch's keys, and as many rows are appended as the batch has records whose
\* key was not stored.
C4_KeyUnionAndCount ==
    (Called /\ DistinctKeys(pre.rows) /\ DistinctKeys(lastIn)) =>
        /\ KeysOf(file.rows) = KeysOf(pre.rows) \cup KeysOf(lastIn)
        /\ Len(file.rows) - Len(pre.rows) =
               Cardinality({i \in 1..Len(lastIn) :
                               Key(lastIn[i]) \notin KeysOf(pre.rows)})

\* The first record of the batch that carries key k.
FirstWithKey(rows, k) ==
    rows[CHOOSE i \in 1..Len(rows) :
            /\ Key(rows[i]) = k
            /\ \A j \in 1..(i - 1) : Key(rows[j]) # k]

\* C5: when a batch holds several records with one key that is not in the
\* store, exactly one row is appended for that key, and it is the first of
\* them in the batch's order.
C5_FirstOccurrenceKept ==
    Called =>
        \A k \in KeysOf(lastIn) \ KeysOf(pre.rows) :
            outcome = "written" =>
                /\ Cardinality({i \in 1..Len(Appended) :
                                   Key(Appended[i]) = k}) = 1
                /\ \E i \in 1..Len(Appended) :
                       Appended[i] = WriteRow(FirstWithKey(lastIn, k))

\* C8: save_to_master with an empty batch writes nothing: the store, or its
\* absence, is as it was.
C8_EmptyBatchNoOp ==
    (Called /\ lastIn = <<>>) => (outcome = "empty" /\ file = pre)

\* An empty batch was given to save_to_master while no store file existed.
C8_Witness == Called /\ lastIn = <<>> /\ ~pre.exists /\ ~file.exists

---------------------------------------------------------------------------
(* Two scripts run at overlapping times against the one master file, and a *)
(* reader reads it.  Each script is its own operating-system process; no   *)
(* script takes a lock on the file or writes it through a temporary file.  *)

\* The scripts that run at overlapping times.
Writers == {"Ciena", "Adtran"}

\* What sits where a write skipped over the end of the file.
Hole ==
    [id |-> 0, company |-> "NUL", title |-> "NUL", link |-> "NUL",
     date |-> "NUL", fetched_at |-> 0, summary_ai |-> "NUL",
     impact_for_zhone |-> "NUL"]

\* Line 1 of the file is the header, line k + 1 its k-th row.  A line written
\* past the end leaves a hole before it.
PutLine(f, pos, rows) ==
    IF pos = 1 THEN [f EXCEPT !.header = TRUE]
    ELSE LET k == pos - 1 IN
         IF k <= Len(f.rows) THEN [f EXCEPT !.rows[k] = rows[k]]
         ELSE [f EXCEPT !.rows =
                   f.rows \o [i \in 1..(k - Len(f.rows) - 1) |-> Hole]
                          \o <<rows[k]>>]

\* The lines from..to of a to_csv output reach the file.
RECURSIVE PutLines(_, _, _, _)
PutLines(f, from, to, rows) ==
    IF from > to THEN f
    ELSE PutLines(PutLine(f, from, rows), from + 1, to, rows)

\* master = load_master() and the merge computed from it, in save_to_master.
WLoad(w) ==
    /\ wpc[w] = "start"
    /\ \E plan \in {merge_plan(w, wdf[w], file)} :
           /\ wpc' = [wpc EXCEPT ![w] =
                         CASE plan.outcome = "written" -> "merged"
                           [] plan.outcome = "raised" -> "failed"
                           [] OTHER -> "done"]
           /\ wout' = [wout EXCEPT ![w] = MapSeq(WriteRow, plan.updated)]
    /\ UNCHANGED <<file, wdf, woff, observed, complete, mergeVars, crawlVars, runVars, dateVars, downVars>>

\* to_csv opens MASTER_FILE for writing, which truncates it.
WOpen(w) ==
    /\ wpc[w] = "merged"
    /\ wpc' = [wpc EXCEPT ![w] = "writing"]
    /\ file' = [exists |-> TRUE, header |-> FALSE, rows |-> <<>>]
    /\ complete' = complete \cup
                      {[exists |-> TRUE, header |-> TRUE, rows |-> wout[w]]}
    /\ UNCHANGED <<wdf, wout, woff, observed, mergeVars, crawlVars, runVars, dateVars, downVars>>

\* to_csv's buffer fills before the last line: some more lines reach the file.
WFlush(w) ==
    /\ wpc[w] = "writing"
    /\ \E n \in 1..(Len(wout[w]) - woff[w]) :
           /\ file' = PutLines(file, woff[w] + 1, woff[w] + n, wout[w])
           /\ woff' = [woff EXCEPT ![w] = woff[w] + n]
    /\ UNCHANGED <<wpc, wdf, wout, observed, complete, mergeVars, crawlVars, runVars, dateVars, downVars>>

\* to_csv closes the file: the rest of the lines reach it.
WClose(w) ==
    /\ wpc[w] = "writing"
    /\ file' = PutLines(file, woff[w] + 1, Len(wout[w]) + 1, wout[w])
    /\ woff' = [woff EXCEPT ![w] = Len(wout[w]) + 1]
    /\ wpc' = [wpc EXCEPT ![w] = "done"]
    /\ UNCHANGED <<wdf, wout, observed, complete, mergeVars, crawlVars, runVars, dateVars, downVars>>

\* A reader (load_recent_press_releases, load_data, the summarizer, another
\* load_master) opens the file and reads what is in it.
Read ==
    /\ observed' = file
    /\ UNCHANGED <<file, wpc, wdf, wout, woff, complete, mergeVars, crawlVars, runVars, dateVars, downVars>>

\* Headlines of the records the concurrent scripts hold.
ConcTitles == {"Q1 Results", "New Product"}

InitConc ==
    /\ file \in {NoFile, to_csv(<<NokiaRow>>)}
    /\ wpc = [w \in Writers |-> "start"]
    /\ \E t \in [Writers -> ConcTitles] :
           wdf = [w \in Writers |->
                     <<NewRow(w, t[w], 1, IF w = "Ciena" THEN 2 ELSE 3)>>]
    /\ wout = [w \in Writers |-> <<>>]
    /\ woff = [w \in Writers |-> 0]
    /\ observed = file
    /\ complete = {file}
    /\ IdleMerge
    /\ IdleCrawl
    /\ IdleRun
    /\ IdleDates
    /\ IdleDown

NextConc ==
    \/ \E w \in Writers : WLoad(w)
    \/ \E w \in Writers : WOpen(w)
    \/ \E w \in Writers : WFlush(w)
    \/ \E w \in Writers : WClose(w)
    \/ Read

SpecConc == InitConc /\ [][NextConc]_vars

\* C6: merges against the same store are serialized, so that when two crawls
\* holding disjoint new records merge at overlapping times, the store ends up
\* holding the new rows of both.
C6_MergesSerialized ==
    (\A w \in Writers : wpc[w] = "done") =>
        \A w \in Writers :
            KeysOf(MapSeq(WriteRow, wdf[w])) \subseteq KeysOf(file.rows)

\* C7: the write-back replaces the store atomically: whatever a reader reads
\* is the complete store as it was before a merge or the complete store a
\* merge wrote, never a partly written one.
C7_AtomicReplace == observed \in complete

---------------------------------------------------------------------------
(* The paginating crawls: main() of getEkinopsPR2025.py, getRibbonPR2025.py, *)
(* getHuaweiPR2025.py, getZTEPR2025.py and getSmartopticsPR2025.py.         *)

\* The paginating scripts, by their COMPANY constant.
Crawlers == {"Ekinops", "Ribbon Communications", "Huawei", "ZTE", "Smartoptics"}

\* cutoff = datetime(2025, 1, 1); a day is written as the number yyyymmdd.
CUTOFF == 20250101

\* The days a source may date a record with.
Days == {20241201, 20250101, 20250201}

\* What strptime gives for a text that does not match the format.
None == 0

\* A date text no format of any script matches.
Garbled == "TBD"

\* The renderings of the days in the formats the scripts know.
DateTable ==
    {[day |-> 20241201, fmt |-> "%Y-%m-%d", text |-> "2024-12-01"],
     [day |-> 20250101, fmt |-> "%Y-%m-%d", text |-> "2025-01-01"],
     [day |-> 20250201, fmt |-> "%Y-%m-%d", text |-> "2025-02-01"],
     [day |-> 20241201, fmt |-> "%Y.%m.%d", text |-> "2024.12.01"],
     [day |-> 20250101, fmt |-> "%Y.%m.%d", text |-> "2025.01.01"],
     [day |-> 20250201, fmt |-> "%Y.%m.%d", text |-> "2025.02.01"],
     [day |-> 20241201, fmt |-> "%d %B %Y", text |-> "01 December 2024"],
     [day |-> 20250101, fmt |-> "%d %B %Y", text |-> "01 January 2025"],
     [day |-> 20250201, fmt |-> "%d %B %Y", text |-> "01 February 2025"],
     [day |-> 20241201, fmt |-> "%B %d, %Y", text |-> "December 01, 2024"],
     [day |-> 20250101, fmt |-> "%B %d, %Y", text |-> "January 01, 2025"],
     [day |-> 20250201, fmt |-> "%B %d, %Y", text |-> "February 01, 2025"],
     [day |-> 20241201, fmt |-> "%b %d, %Y", text |-> "Dec 01, 2024"],
     [day |-> 20250101, fmt |-> "%b %d, %Y", text |-> "Jan 01, 2025"],
     [day |-> 20250201, fmt |-> "%b %d, %Y", text |-> "Feb 01, 2025"],
     [day |-> 20241201, fmt |-> "%d%b%Y", text |-> "01Dec2024"],
     [day |-> 20250101, fmt |-> "%d%b%Y", text |-> "01Jan2025"],
     [day |-> 20250201, fmt |-> "%d%b%Y", text |-> "01Feb2025"]}

\* datetime.strptime(text, fmt), None where it raises ValueError.
strptime(text, fmt) ==
    IF \E e \in DateTable : e.text = text /\ e.fmt = fmt
    THEN (CHOOSE e \in DateTable : e.text = text /\ e.fmt = fmt).day
    ELSE None

\* date.strftime("%Y-%m-%d")
strftime(day) ==
    (CHOOSE e \in DateTable : e.day = day /\ e.fmt = "%Y-%m-%d").text

\* The formats a script's normalize_date tries, in its order.
Formats(c) ==
    CASE c = "Ekinops" -> <<"%d %B %Y">>
      [] c = "Ribbon Communications" -> <<"%B %d, %Y">>
      [] c = "Huawei" -> <<"%b %d, %Y", "%B %d, %Y", "%Y-%m-%d">>
      [] c = "ZTE" -> <<"%Y-%m-%d", "%Y.%m.%d", "%b %d, %Y">>
      [] c = "Zhone Technologies" -> <<"%B %d, %Y">>
      [] c = "Calix" -> <<"%B %d, %Y", "%b %d, %Y", "%Y-%m-%d">>
      [] c = "Ciena" -> <<"%Y-%m-%d", "%Y/%m/%d", "%B %d, %Y", "%b %d, %Y">>
      [] c = "Nokia" -> <<"%d%b%Y", "%B %d, %Y", "%d %B %Y", "%Y-%m-%d">>
      [] c = "Adtran" -> <<"%B %d, %Y">>
      [] OTHER -> <<"%Y-%m-%d">>

\* The first of the formats that parses the text gives its ISO form; a text
\* none of them parses is returned as it is.
RECURSIVE TryFormats(_, _)
TryFormats(date_str, fmts) ==
    IF fmts = <<>> THEN date_str
    ELSE IF strptime(date_str, Head(fmts)) # None
         THEN strftime(strptime(date_str, Head(fmts)))
         ELSE TryFormats(date_str, Tail(fmts))

\* normalize_date(date_str) of script c.
normalize_date(c, date_str) == TryFormats(date_str, Formats(c))

\* date_obj = datetime.strptime(date_str, "%Y-%m-%d"), None where it raises.
ParseISO(date_str) == strptime(date_str, "%Y-%m-%d")

\* A main() that passes over a record dated before the cutoff and goes on.
classify_no_stop(c, date_obj) ==
    IF date_obj # None /\ date_obj < CUTOFF THEN "skip"
    ELSE IF date_obj # None THEN "keep"
    ELSE IF c = "Smartoptics" THEN "keep"
    ELSE "skip"

\* A main() that stops at a record dated on the cutoff day as well.
classify_cutoff_day_old(c, date_obj) ==
    IF date_obj # None /\ date_obj <= CUTOFF THEN "stop"
    ELSE IF date_obj # None THEN "keep"
    ELSE IF c = "Smartoptics" THEN "keep"
    ELSE "skip"

\* A main() that takes a record whose date did not parse for an old one.
classify_unparsed_stops(c, date_obj) ==
    IF date_obj = None THEN "stop"
    ELSE IF date_obj < CUTOFF
    THEN (IF c \in {"Ciena", "Zhone Technologies", "Calix"} THEN "skip"
          ELSE "stop")
    ELSE "keep"

\* A main() that keeps every record whose date parsed, whatever the date.
classify_keep_old(c, date_obj) ==
    IF date_obj # None THEN "keep"
    ELSE IF c = "Smartoptics" THEN "keep"
    ELSE "skip"

\* The scripts whose main() reads one listing and filters its records by date,
\* with no pagination to stop: Ciena, Zhone and Calix (date-filtered).
FilterCrawlers == {"Ciena", "Zhone Technologies", "Calix"}

\* What main() of script c does with a record whose date parsed to date_obj:
\* a date before the cutoff stops a paginating crawl and is passed over by a
\* filtering one, a date on or after it keeps the record; a record with no
\* parsed date is kept by Smartoptics only.
classify(c, date_obj) ==
    IF date_obj # None /\ date_obj < CUTOFF
    THEN (IF c \in FilterCrawlers THEN "skip" ELSE "stop")
    ELSE IF date_obj # None THEN "keep"
    ELSE IF c = "Smartoptics" THEN "keep"
    ELSE "skip"

\* The format a source's listing shows its dates in.
NativeFmt(c) == Head(Formats(c))

\* The date texts a listing of source c may show.
DateTexts(c) ==
    {e.text : e \in {d \in DateTable : d.fmt = NativeFmt(c)}} \cup {Garbled}

\* Headline and address of the i-th record a source lists.
ItemTitles ==
    <<"Q1 Results", "New Product", "Field Trial", "Partnership", "Award">>
ItemLinks ==
    <<"https://site/pr/1", "https://site/pr/2", "https://site/pr/3",
      "https://site/pr/4", "https://site/pr/5">>

Item(i, text) == [title |-> ItemTitles[i], link |-> ItemLinks[i], date |-> text]

\* The listings a source may have: its records in the order it shows them.
Listing(texts) == [i \in 1..Len(texts) |-> Item(i, texts[i])]

Sites(c) ==
    {Listing(d) : d \in UNION {[1..k -> DateTexts(c)] : k \in 0..MaxItems}}

Min(a, b) == IF a < b THEN a ELSE b

\* items / cards / results of the page p of the listing; a page past the last
\* record is empty.  An endless source answers every request with the page it
\* has, whatever the page asked for.
Page(p) ==
    IF endless THEN site
    ELSE IF (p - 1) * PageSize >= Len(site) THEN <<>>
    ELSE SubSeq(site, (p - 1) * PageSize + 1, Min(p * PageSize, Len(site)))

\* rows.append({...}) of a paginating main().
CrawlRow(c, title, link, date_str, id) ==
    [id |-> id, company |-> c, title |-> title, link |-> link,
     date |-> date_str, fetched_at |-> 2, summary_ai |-> NaN,
     impact_for_zhone |-> NaN]

\* offset += step, page += 1: the page asked for next.  Against an endless
\* source the pages from MaxPages on are counted as one.
NextPage == IF endless THEN Min(pageNo + 1, MaxPages) ELSE pageNo + 1

\* The tallies of requests and of evaluated records, kept for a crawl of a
\* listing that ends.
Tally(n, k) == IF endless THEN n ELSE n + k

\* How a request for a listing page may end: whether it gave the page, and
\* the requests made.  Ribbon's get_page makes up to 3 attempts; the others
\* make one.
get_page(c) ==
    IF c = "Ribbon Communications"
    THEN {[ok |-> TRUE, requests |-> k] : k \in 1..3}
             \cup {[ok |-> FALSE, requests |-> 3]}
    ELSE {[ok |-> TRUE, requests |-> 1], [ok |-> FALSE, requests |-> 1]}

\* The scripts that leave the page loop with break when a request fails; the
\* others let the exception end main().
BreakOnFailure == {"Huawei", "ZTE"}

\* content_id = get_content_id() of Huawei's main(): one request before the
\* page loop, whose failure ends main().
CContentId ==
    /\ cpc = "start"
    /\ requests' = Tally(requests, 1)
    /\ \E ok \in BOOLEAN :
           /\ cpc' = IF ok THEN "fetch" ELSE "crashed"
           /\ fetchFailed' = (fetchFailed \/ ~ok)
    /\ UNCHANGED <<file, mergeVars, concVars, runVars, dateVars, downVars, crawler, site, pageNo, itemNo,
                   all_rows, seen_links, evaluated, oldSeen>>

\* The top of the page loop: the page pageNo is requested.
CFetch ==
    /\ cpc = "fetch"
    /\ \E r \in get_page(crawler) :
           /\ requests' = Tally(requests, r.requests)
           /\ fetchFailed' = (fetchFailed \/ ~r.ok)
           /\ cpc' = IF ~r.ok
                     THEN (IF crawler \in BreakOnFailure THEN "save"
                           ELSE "crashed")
                     ELSE IF Page(pageNo) = <<>> THEN "save" ELSE "eval"
    /\ itemNo' = 1
    /\ UNCHANGED <<file, mergeVars, concVars, runVars, dateVars, downVars, crawler, site, pageNo, all_rows,
                   seen_links, evaluated, oldSeen>>

\* title = extract_title(link) of Smartoptics: a request for the article's
\* page, "(No title)" when it fails.  The other scripts read the headline off
\* the listing.
extract_title(c, item) ==
    IF c = "Smartoptics"
    THEN {[title |-> item.title, requests |-> 1, ok |-> TRUE],
          [title |-> "(No title)", requests |-> 1, ok |-> FALSE]}
    ELSE {[title |-> item.title, requests |-> 0, ok |-> TRUE]}

\* The scripts that skip a record whose link they have seen.
SeenLinkScripts == {"Ekinops", "Ribbon Communications"}

\* The end of one pass of the record loop that did not stop the crawl: the
\* next record of the page, or the next page.
Advance ==
    IF itemNo < Len(Page(pageNo))
    THEN /\ itemNo' = itemNo + 1
         /\ UNCHANGED <<pageNo, cpc>>
    ELSE /\ itemNo' = 1
         /\ pageNo' = NextPage
         /\ cpc' = "fetch"

\* One pass of the record loop of main(): the record itemNo of the page.
CEval ==
    /\ cpc = "eval"
    /\ evaluated' = Tally(evaluated, 1)
    /\ LET item == Page(pageNo)[itemNo]
           date_str == normalize_date(crawler, item.date)
           date_obj == ParseISO(date_str)
           verdict == classify(crawler, date_obj)
           old == date_obj # None /\ date_obj < CUTOFF
       IN  IF crawler \in SeenLinkScripts /\ item.link \in seen_links
           THEN /\ Advance
                /\ UNCHANGED <<all_rows, seen_links, requests, oldSeen,
                               fetchFailed>>
           ELSE /\ seen_links' = IF crawler \in SeenLinkScripts
                                 THEN seen_links \cup {item.link}
                                 ELSE seen_links
                /\ oldSeen' = (oldSeen \/ old)
                /\ CASE verdict = "stop" ->
                          /\ cpc' = "save"
                          /\ pageNo' = IF crawler = "Smartoptics"
                                       THEN NextPage ELSE pageNo
                          /\ UNCHANGED <<itemNo, all_rows, requests,
                                         fetchFailed>>
                     [] verdict = "keep" ->
                          /\ \E t \in extract_title(crawler, item) :
                                 /\ all_rows' = Append(all_rows,
                                        CrawlRow(crawler, t.title, item.link,
                                                 date_str, Len(all_rows) + 2))
                                 /\ requests' = Tally(requests, t.requests)
                                 /\ fetchFailed' = (fetchFailed \/ ~t.ok)
                          /\ Advance
                     [] OTHER ->
                          /\ Advance
                          /\ UNCHANGED <<all_rows, requests, fetchFailed>>
    /\ UNCHANGED <<file, mergeVars, concVars, runVars, dateVars, downVars, crawler, site>>

\* After the page loop: df_new = pd.DataFrame(rows); save_to_master(df_new).
CSave ==
    /\ cpc = "save"
    /\ \E res \in {save_to_master(crawler, all_rows, file)} :
           /\ file' = res.file
           /\ outcome' = res.outcome
           /\ cpc' = IF res.outcome = "raised" THEN "crashed" ELSE "done"
    /\ pre' = file
    /\ lastIn' = all_rows
    /\ UNCHANGED <<scraper, repeated, concVars, runVars, dateVars, downVars, crawler, site, pageNo, itemNo,
                   all_rows, seen_links, requests, evaluated, oldSeen,
                   fetchFailed>>

InitCrawl ==
    /\ file \in {NoFile, HeaderOnly, to_csv(<<NokiaRow>>)}
    /\ crawler \in Crawlers
    /\ site \in Sites(crawler)
    /\ cpc = IF crawler = "Huawei" THEN "start" ELSE "fetch"
    /\ pageNo = 1
    /\ itemNo = 1
    /\ all_rows = <<>>
    /\ seen_links = {}
    /\ requests = 0
    /\ evaluated = 0
    /\ oldSeen = FALSE
    /\ fetchFailed = FALSE
    /\ pre = file
    /\ lastIn = <<>>
    /\ scraper = crawler
    /\ outcome = "none"
    /\ repeated = FALSE
    /\ IdleConc
    /\ IdleRun
    /\ IdleDates
    /\ IdleDown

NextCrawl == CContentId \/ CFetch \/ CEval \/ CSave

SpecCrawl == InitCrawl /\ [][NextCrawl]_vars

---------------------------------------------------------------------------
(* Claims about the paginating crawls, checked under SpecCrawl. *)

\* C9: once a record whose date parsed to a day before the cutoff has been
\* evaluated, no further record is evaluated and no further page is requested.
C9_PaginationStops ==
    [][oldSeen => (evaluated' = evaluated /\ requests' = requests)]_vars

\* A crawl met a record older than the cutoff and came to its end while the
\* listing had records it had not evaluated and pages it had not requested.
C9_Witness ==
    /\ oldSeen
    /\ cpc = "done"
    /\ evaluated < Len(site)
    /\ requests * PageSize < Len(site)

\* The day a date text of a listing stands for.
DayOf(text) ==
    IF \E e \in DateTable : e.text = text
    THEN (CHOOSE e \in DateTable : e.text = text).day
    ELSE None

\* The script parses every date of the listing.
AllParseable ==
    \A i \in 1..Len(site) :
        ParseISO(normalize_date(crawler, site[i].date)) # None

\* The listing is in strictly reverse-chronological order.
ReverseChronological ==
    \A i \in 1..(Len(site) - 1) : DayOf(site[i].date) > DayOf(site[i + 1].date)

\* The store holds no record.
EmptyStore(f) == f.rows = <<>> /\ (f.exists => f.header)

\* main() has come to its end.
Ended == cpc \in {"done", "crashed"}

\* A stored row, or a listed record, as the record it is.
Rec(company, title, link, date) ==
    [company |-> company, title |-> title, link |-> link, date |-> date]

StoredRecs ==
    {Rec(file.rows[i].company, file.rows[i].title, file.rows[i].link,
         file.rows[i].date) : i \in 1..Len(file.rows)}

\* The source's records dated on or after the cutoff.
ListedSinceCutoff ==
    {Rec(crawler, site[i].title, site[i].link, strftime(DayOf(site[i].date))) :
        i \in {j \in 1..Len(site) : DayOf(site[j].date) >= CUTOFF}}

\* C10: from an empty store, with a source that answers every request and
\* lists records with parseable dates, distinct titles and distinct links in
\* strictly reverse-chronological order, a crawl and its merge leave the store
\* holding exactly the source's records dated on or after the cutoff, each
\* once.
C10_EndToEnd ==
    (Ended /\ ~fetchFailed /\ EmptyStore(pre) /\ AllParseable
        /\ ReverseChronological) =>
        /\ cpc = "done"
        /\ StoredRecs = ListedSinceCutoff
        /\ Len(file.rows) = Cardinality(ListedSinceCutoff)

\* The crawl of a listing with two records on or after the cutoff and, on its
\* second page, one before it has ended and the store holds two rows.
C10_Witness ==
    /\ Ended /\ ~fetchFailed /\ EmptyStore(pre) /\ AllParseable
    /\ ReverseChronological
    /\ Len(site) = 3
    /\ DayOf(site[3].date) < CUTOFF
    /\ DayOf(site[2].date) = CUTOFF
    /\ Len(file.rows) = 2

---------------------------------------------------------------------------
(* The filtering crawls: main() of getCienaPR2025.py, getZhonePR2025.py and  *)
(* getCalixPRLoadMoreDateOK.py read one listing of links, then the page of   *)
(* every link, and keep the records dated on or after the cutoff.           *)

\* The scripts whose main() calls save_to_master only when it kept a record.
SaveIfRows == {"Ciena", "Zhone Technologies"}

\* links = get_press_release_links() (Ciena, Zhone) or the loaded listing page
\* (Calix): one request, whose failure ends main().
FList ==
    /\ cpc = "list"
    /\ requests' = Tally(requests, 1)
    /\ \E ok \in BOOLEAN :
           /\ fetchFailed' = (fetchFailed \/ ~ok)
           /\ cpc' = IF ~ok THEN "crashed"
                     ELSE IF site = <<>> THEN "fsave" ELSE "detail"
    /\ itemNo' = 1
    /\ UNCHANGED <<file, mergeVars, concVars, runVars, dateVars, downVars, crawler, site, pageNo, all_rows,
                   seen_links, evaluated, oldSeen>>

\* The date a filtering script reads off the page of a link: the normalized
\* date of the page, the empty text when the request for the page fails.
detail_date(c, item, ok) == IF ok THEN normalize_date(c, item.date) ELSE ""

\* One pass of the loop over the links: the page of link itemNo is requested
\* and its record kept or passed over.
FDetail ==
    /\ cpc = "detail"
    /\ evaluated' = Tally(evaluated, 1)
    /\ requests' = Tally(requests, 1)
    /\ \E ok \in BOOLEAN :
           LET item == site[itemNo]
               date_str == detail_date(crawler, item, ok)
               date_obj == ParseISO(date_str)
           IN  /\ fetchFailed' = (fetchFailed \/ ~ok)
               /\ oldSeen' = (oldSeen \/ (date_obj # None /\ date_obj < CUTOFF))
               /\ all_rows' =
                      IF classify(crawler, date_obj) = "keep"
                      THEN Append(all_rows,
                                  CrawlRow(crawler, item.title, item.link,
                                           date_str, Len(all_rows) + 2))
                      ELSE all_rows
    /\ IF itemNo < Len(site)
       THEN itemNo' = itemNo + 1 /\ UNCHANGED cpc
       ELSE itemNo' = 1 /\ cpc' = "fsave"
    /\ UNCHANGED <<file, mergeVars, concVars, runVars, dateVars, downVars, crawler, site, pageNo,
                   seen_links>>

\* After the loop: save_to_master(df_new); Ciena and Zhone call it only when
\* rows is not empty.
FSave ==
    /\ cpc = "fsave"
    /\ IF crawler \in SaveIfRows /\ all_rows = <<>>
       THEN /\ cpc' = "done"
            /\ UNCHANGED <<file, pre, lastIn, outcome>>
       ELSE /\ \E res \in {save_to_master(crawler, all_rows, file)} :
                   /\ file' = res.file
                   /\ outcome' = res.outcome
                   /\ cpc' = IF res.outcome = "raised" THEN "crashed"
                             ELSE "done"
            /\ pre' = file
            /\ lastIn' = all_rows
    /\ UNCHANGED <<scraper, repeated, concVars, runVars, dateVars, downVars, crawler, site, pageNo, itemNo,
                   all_rows, seen_links, requests, evaluated, oldSeen,
                   fetchFailed>>

InitFilter ==
    /\ file \in {NoFile, HeaderOnly, to_csv(<<NokiaRow>>)}
    /\ crawler \in FilterCrawlers
    /\ site \in Sites(crawler)
    /\ cpc = "list"
    /\ pageNo = 1
    /\ itemNo = 1
    /\ all_rows = <<>>
    /\ seen_links = {}
    /\ requests = 0
    /\ evaluated = 0
    /\ oldSeen = FALSE
    /\ fetchFailed = FALSE
    /\ pre = file
    /\ lastIn = <<>>
    /\ scraper = crawler
    /\ outcome = "none"
    /\ repeated = FALSE
    /\ IdleConc
    /\ IdleRun
    /\ IdleDates
    /\ IdleDown

NextFilter == FList \/ FDetail \/ FSave

\* One run of one cutoff-filtering script, paginating or not.
InitSources == InitCrawl \/ InitFilter

NextSources == NextCrawl \/ NextFilter

SpecSources == InitSources /\ [][NextSources]_vars

---------------------------------------------------------------------------
(* Claims about every cutoff-filtering crawl, checked under SpecSources. *)

\* The normalized date parses to a day before the cutoff.
IsOld(date_str) == ParseISO(date_str) # None /\ ParseISO(date_str) < CUTOFF

NoOldRow(rows) == \A i \in 1..Len(rows) : ~IsOld(rows[i].date)

\* C11: whatever the listing holds and in whatever order, no record whose
\* normalized date parses to a day before the cutoff is among the rows a crawl
\* collects, nor in the batch it passes to save_to_master.
C11_NoOldRecordPassed == NoOldRow(all_rows) /\ NoOldRow(lastIn)

\* A crawl of a listing that is not in date order has evaluated a record
\* dated before the cutoff and has passed a later record to save_to_master.
C11_Witness ==
    /\ oldSeen
    /\ cpc = "done"
    /\ outcome = "written"
    /\ lastIn # <<>>
    /\ Len(site) >= 2
    /\ DayOf(site[1].date) # None
    /\ DayOf(site[1].date) < CUTOFF

\* The script cannot normalize the date text of the record to YYYY-MM-DD.
Unparsed(c, item) == ParseISO(normalize_date(c, item.date)) = None

\* The record is among the rows the crawl has collected.
Kept(item) == \E j \in 1..Len(all_rows) : all_rows[j].link = item.link

\* The evaluated records whose date the script could not normalize.
EvaluatedUnparsed ==
    {i \in 1..evaluated : Unparsed(crawler, site[i])}

\* A paginating crawl that left its page loop before it had evaluated every
\* record, with every request answered, did so at a record dated before the
\* cutoff: no other record stops the pagination.
OnlyOldStops ==
    (crawler \in Crawlers /\ cpc \in {"save", "done"} /\ ~fetchFailed
        /\ evaluated < Len(site)) => oldSeen

---------------------------------------------------------------------------
(* The page loops against a source that never runs out: every request is    *)
(* answered with the same page of records, and the 'Load more' button of    *)
(* Calix may stay on the page after every click.                            *)

\* What main() does with a record of the listing.
Verdict(c, item) == classify(c, ParseISO(normalize_date(c, item.date)))

\* The link of the record names a year up to 2024: the year of the record.
LinkOld(item) ==
    LET d == ParseISO(normalize_date("Calix", item.date))
    IN  d # None /\ d < CUTOFF

\* The test that ends the click loop of getCalixPRLoadMoreDateOK.py: at least
\* 3 of the last 10 links name a year, and all of them one up to 2024.
OnlyOldLoaded ==
    LET last == {i \in 1..Len(site) : i > Len(site) - 10}
    IN  /\ Len(site) >= 3
        /\ \A i \in last : LinkOld(site[i])

\* The head of the click loop of Calix: it ends when no link is loaded, when
\* only old links are, or when the page has no 'Load more' button.
LMore ==
    /\ cpc = "more"
    /\ \E btn \in BOOLEAN :
           cpc' = IF site = <<>> THEN "fsave"
                  ELSE IF OnlyOldLoaded \/ ~btn THEN "detail"
                  ELSE "click"
    /\ itemNo' = 1
    /\ UNCHANGED <<file, mergeVars, concVars, runVars, dateVars, downVars, crawler, site, pageNo,
                   all_rows, seen_links, requests, evaluated, oldSeen,
                   fetchFailed>>

\* btn.click(); page.wait_for_timeout(2000): back to the head of the loop.
LClick ==
    /\ cpc = "click"
    /\ cpc' = "more"
    /\ UNCHANGED <<file, mergeVars, concVars, runVars, dateVars, downVars, crawler, site, pageNo,
                   itemNo, all_rows, seen_links, requests, evaluated, oldSeen,
                   fetchFailed>>

\* The pages under which rows stays within bounds while the loop runs on: no
\* record is appended on every pass.
RowsBounded(c, page) ==
    \/ c \in SeenLinkScripts \cup {"Calix"}
    \/ \A i \in 1..Len(page) :
           Verdict(c, page[i]) = "keep"
               => \E j \in 1..(i - 1) : Verdict(c, page[j]) = "stop"

EndlessPages(c) ==
    {s \in Sites(c) : s # <<>> /\ Len(s) <= PageSize /\ RowsBounded(c, s)}

InitEndless ==
    /\ file \in {NoFile, HeaderOnly, to_csv(<<NokiaRow>>)}
    /\ crawler \in Crawlers \cup {"Calix"}
    /\ site \in EndlessPages(crawler)
    /\ cpc = IF crawler = "Huawei" THEN "start"
             ELSE IF crawler = "Calix" THEN "more" ELSE "fetch"
    /\ pageNo = 1
    /\ itemNo = 1
    /\ all_rows = <<>>
    /\ seen_links = {}
    /\ requests = 0
    /\ evaluated = 0
    /\ oldSeen = FALSE
    /\ fetchFailed = FALSE
    /\ pre = file
    /\ lastIn = <<>>
    /\ scraper = crawler
    /\ outcome = "none"
    /\ repeated = FALSE
    /\ IdleConc
    /\ endless = TRUE
    /\ attempt = 0
    /\ waits = <<>>
    /\ runlog = <<>>
    /\ IdleDates
    /\ IdleDown

NextEndless ==
    CContentId \/ CFetch \/ CEval \/ CSave \/ LMore \/ LClick \/ FDetail
        \/ FSave

\* The script runs on for as long as it has a step to take.
SpecEndless == InitEndless /\ [][NextEndless]_vars /\ WF_vars(NextEndless)

\* The places of main() inside a page loop or a click loop.
InLoop == cpc \in {"start", "fetch", "eval", "more", "click"}

\* C13: every page loop and every click loop ends, whatever the source
\* answers, a source that never runs out of pages included: main() comes to
\* leave the loop.
C13_LoopsTerminate == <>(~InLoop)

---------------------------------------------------------------------------
(* Claims about a failed request in the middle of a crawl, checked under     *)
(* SpecCrawl.                                                                *)

\* Every collected record is in the store.
Merged ==
    \A i \in 1..Len(all_rows) :
        Key(WriteRow(all_rows[i])) \in KeysOf(file.rows)

\* C14: when the request for a page after the first fails for good, the page
\* loop ends and main() goes on to save_to_master; the records collected from
\* the pages before reach save_to_master and are merged into the store.
C14_PartialResultsSaved ==
    /\ [][(cpc = "fetch" /\ pageNo > 1 /\ all_rows # <<>>)
              => cpc' # "crashed"]_vars
    /\ []((Ended /\ pageNo > 1 /\ fetchFailed /\ crawler # "Smartoptics")
              => (lastIn = all_rows /\ Merged))

---------------------------------------------------------------------------
(* get_page of getRibbonPR2025.py, one request at a time.                    *)

\* for attempt in range(3)
MAX_ATTEMPTS == 3

\* time.sleep(2), in seconds
RETRY_SLEEP == 2

\* How one requests.get may end: a page, a 403 answer, or a RequestException
\* (a timeout, a refused connection, the HTTPError of raise_for_status).
Responses == {"200", "403", "RequestException"}

\* One pass of the loop of get_page: a request, then the page is returned, or
\* the script sleeps; after the last pass RuntimeError ends main().
RRequest ==
    /\ cpc \in {"fetch", "retry"}
    /\ LET n == IF cpc = "fetch" THEN 0 ELSE attempt
           w == IF cpc = "fetch" THEN <<>> ELSE waits
       IN  \E status \in Responses :
               /\ attempt' = n + 1
               /\ IF status = "200"
                  THEN /\ waits' = w
                       /\ cpc' = IF Page(pageNo) = <<>> THEN "save" ELSE "eval"
                       /\ UNCHANGED fetchFailed
                  ELSE /\ waits' = Append(w, RETRY_SLEEP)
                       /\ cpc' = IF n + 1 = MAX_ATTEMPTS THEN "crashed"
                                 ELSE "retry"
                       /\ fetchFailed' = (fetchFailed \/ n + 1 = MAX_ATTEMPTS)
    /\ requests' = Tally(requests, 1)
    /\ itemNo' = 1
    /\ UNCHANGED <<file, mergeVars, concVars, dateVars, downVars, endless, runlog, crawler, site,
                   pageNo, all_rows, seen_links, evaluated, oldSeen>>

InitRetry == InitCrawl /\ crawler = "Ribbon Communications"

NextRetry == RRequest \/ CEval \/ CSave

\* One run of getRibbonPR2025.py.
SpecRetry == InitRetry /\ [][NextRetry]_vars

\* get_page has returned a page and main() has gone on.
PageReturned == attempt > 0 /\ cpc \in {"eval", "save", "done"}

\* get_page has raised.
PageRaised == cpc = "crashed" /\ outcome = "none"

\* At most MAX_ATTEMPTS requests go to one URL; the page is that of the first
\* request that succeeds; RuntimeError comes after the third failure only.
BoundedRetry ==
    /\ attempt <= MAX_ATTEMPTS
    /\ cpc = "retry" => (attempt < MAX_ATTEMPTS /\ Len(waits) = attempt)
    /\ PageReturned => Len(waits) = attempt - 1
    /\ PageRaised => (attempt = MAX_ATTEMPTS /\ Len(waits) = MAX_ATTEMPTS)

\* The sleep after a failed attempt is longer than the one before it.
DelaysGrow == \A i \in 1..(Len(waits) - 1) : waits[i] < waits[i + 1]

\* C15: get_page of Ribbon makes at most 3 requests for a URL, returns the
\* page of the first that succeeds and makes no request after it, sleeps
\* longer after every failed attempt, and raises after the third failure only.
C15_BoundedRetryWithBackoff == BoundedRetry /\ DelaysGrow

---------------------------------------------------------------------------
(* Two runs, one after the other: a script is run, and when it has ended     *)
(* with an exception the script of another source is run.  Every script is   *)
(* a process of its own (if __name__ == "__main__": main()); the store file  *)
(* is all that one run leaves to the next.                                   *)

RunItems == 1   \* records a source lists, in a sequence of runs

RunSites(c) == {s \in Sites(c) : Len(s) <= RunItems}

\* The place main() of a script starts at.
StartOf(c) ==
    IF c = "Huawei" THEN "start"
    ELSE IF c \in FilterCrawlers THEN "list" ELSE "fetch"

\* What is kept of a run that has ended.
RunRecord ==
    [crawler |-> crawler, crashed |-> cpc = "crashed", before |-> pre,
     after |-> file, collected |-> Len(all_rows)]

\* A variant of StartRun in which the collected rows outlive the process.
StartRun_keeps_rows ==
    /\ cpc = "crashed"
    /\ runlog = <<>>
    /\ runlog' = <<RunRecord>>
    /\ \E c \in (Crawlers \cup FilterCrawlers) \ {crawler} :
           /\ crawler' = c
           /\ scraper' = c
           /\ site' \in RunSites(c)
           /\ cpc' = StartOf(c)
    /\ pageNo' = 1
    /\ itemNo' = 1
    /\ seen_links' = {}
    /\ requests' = 0
    /\ evaluated' = 0
    /\ oldSeen' = FALSE
    /\ fetchFailed' = FALSE
    /\ pre' = file
    /\ lastIn' = <<>>
    /\ outcome' = "none"
    /\ UNCHANGED <<file, all_rows, repeated, concVars, dateVars, downVars, endless, attempt,
                   waits>>

\* After a run that ended with an exception, the script of another source is
\* started: main() begins with rows = [] and the store as the run left it.
StartRun ==
    /\ cpc = "crashed"
    /\ runlog = <<>>
    /\ runlog' = <<RunRecord>>
    /\ \E c \in (Crawlers \cup FilterCrawlers) \ {crawler} :
           /\ crawler' = c
           /\ scraper' = c
           /\ site' \in RunSites(c)
           /\ cpc' = StartOf(c)
    /\ pageNo' = 1
    /\ itemNo' = 1
    /\ all_rows' = <<>>
    /\ seen_links' = {}
    /\ requests' = 0
    /\ evaluated' = 0
    /\ oldSeen' = FALSE
    /\ fetchFailed' = FALSE
    /\ pre' = file
    /\ lastIn' = <<>>
    /\ outcome' = "none"
    /\ UNCHANGED <<file, repeated, concVars, dateVars, downVars, endless, attempt,
                   waits>>

InitRuns == InitSources /\ Len(site) <= RunItems

NextRuns == NextSources \/ StartRun

SpecRuns == InitRuns /\ [][NextRuns]_vars

\* The stored rows of a company.
RowsOf(f, company) ==
    {i \in 1..Len(f.rows) : f.rows[i].company = company}

\* C16: a run that ends with an exception before save_to_master has written
\* leaves the store as it was and adds no record of its source, then or
\* later; the run of another source started after it merges its own records.
C16_FailureIsolated ==
    /\ cpc = "crashed" => file = pre
    /\ \A k \in 1..Len(runlog) :
           /\ runlog[k].after = runlog[k].before
           /\ RowsOf(file, runlog[k].crawler)
                  = RowsOf(runlog[k].before, runlog[k].crawler)
    /\ (runlog # <<>> /\ cpc = "done") => Merged

\* A run that had collected a record ended with an exception; the run of
\* another source after it has added its record to the store.
C16_Witness ==
    /\ runlog # <<>>
    /\ runlog[1].collected > 0
    /\ cpc = "done"
    /\ all_rows # <<>>
    /\ Merged
    /\ Len(file.rows) > Len(runlog[1].after.rows)

---------------------------------------------------------------------------
(* save_to_master against a store file that is absent, empty, or saved in    *)
(* another encoding.                                                         *)

\* A file of no byte: what open(MASTER_FILE, "w") leaves before a line is
\* written.
ZeroByte == [exists |-> TRUE, header |-> FALSE, rows |-> <<>>]

\* The store after a row was edited and saved as cp1252.
Cp1252File ==
    [exists |-> TRUE, header |-> TRUE,
     rows |-> <<[WriteRow(NokiaRow) EXCEPT !.title = Cp1252Title]>>]

InitLoad ==
    /\ file \in {NoFile, ZeroByte, HeaderOnly, Cp1252File}
    /\ scraper \in Scripts
    /\ pre = file
    /\ lastIn = <<>>
    /\ outcome = "none"
    /\ repeated = FALSE
    /\ IdleConc
    /\ IdleCrawl
    /\ IdleRun
    /\ IdleDates
    /\ IdleDown

SpecLoad == InitLoad /\ [][NextMerge]_vars

\* The store states load_master is to put up with.
Absent(f) == ~f.exists
Empty(f) == f.exists /\ f.rows = <<>>
Tolerated(f) == Absent(f) \/ Empty(f) \/ Undecodable(f)

\* Every record of the last df_new is in the store.
Persisted ==
    \A i \in 1..Len(lastIn) : Key(WriteRow(lastIn[i])) \in KeysOf(file.rows)

\* C17: when the store file is absent, empty, or not decodable as UTF-8,
\* load_master returns a frame without raising, and the save_to_master that
\* called it completes and leaves the incoming records in the store.
C17_LoadMasterTolerant ==
    (Called /\ lastIn # <<>> /\ Tolerated(pre))
        => (outcome = "written" /\ Persisted)

---------------------------------------------------------------------------
(* normalize_date on its own.  A text is the sequence of its pieces: words,  *)
(* numbers, blanks and punctuation marks, so that strip, replace and split   *)
(* and the matching of strptime work on what the text holds.                 *)

MonthFull ==
    <<"January", "February", "March", "April", "May", "June", "July",
      "August", "September", "October", "November", "December">>

MonthAbbr ==
    <<"Jan", "Feb", "Mar", "Apr", "May", "Jun", "Jul", "Aug", "Sep", "Oct",
      "Nov", "Dec">>

\* The numbers 1 to 31 as they are written, without and with a leading zero.
Plain ==
    <<"1", "2", "3", "4", "5", "6", "7", "8", "9", "10", "11", "12", "13",
      "14", "15", "16", "17", "18", "19", "20", "21", "22", "23", "24", "25",
      "26", "27", "28", "29", "30", "31">>

TwoDigit ==
    <<"01", "02", "03", "04", "05", "06", "07", "08", "09", "10", "11", "12",
      "13", "14", "15", "16", "17", "18", "19", "20", "21", "22", "23", "24",
      "25", "26", "27", "28", "29", "30", "31">>

\* The place of a piece in a table, 0 when the table does not hold it.
IndexIn(table, piece) ==
    IF \E n \in 1..Len(table) : table[n] = piece
    THEN CHOOSE n \in 1..Len(table) : table[n] = piece
    ELSE 0

\* The number a piece of one or two digits stands for, 0 when it is none.
Num(piece) ==
    IF IndexIn(Plain, piece) # 0 THEN IndexIn(Plain, piece)
    ELSE IndexIn(TwoDigit, piece)

YearPiece(y) == IF y = 2024 THEN "2024" ELSE "2025"

YearOf(piece) ==
    IF piece = "2024" THEN 2024 ELSE IF piece = "2025" THEN 2025 ELSE 0

\* The days of a month of the calendar.
DaysIn(y, mo) ==
    IF mo \in {4, 6, 9, 11} THEN 30
    ELSE IF mo # 2 THEN 31
    ELSE IF y % 4 = 0 THEN 29 ELSE 28

\* A format string of strptime as its directives and the pieces between.
Directives(fmt) ==
    CASE fmt = "%B %d, %Y" -> <<"%B", " ", "%d", ",", " ", "%Y">>
      [] fmt = "%b %d, %Y" -> <<"%b", " ", "%d", ",", " ", "%Y">>
      [] fmt = "%Y-%m-%d" -> <<"%Y", "-", "%m", "-", "%d">>
      [] fmt = "%Y/%m/%d" -> <<"%Y", "/", "%m", "/", "%d">>
      [] fmt = "%Y.%m.%d" -> <<"%Y", ".", "%m", ".", "%d">>
      [] fmt = "%m/%d/%Y" -> <<"%m", "/", "%d", "/", "%Y">>
      [] fmt = "%d-%b-%Y" -> <<"%d", "-", "%b", "-", "%Y">>
      [] fmt = "%d%b%Y" -> <<"%d", "%b", "%Y">>
      [] fmt = "%d %B %Y" -> <<"%d", " ", "%B", " ", "%Y">>

\* What a directive reads off a piece: a number from 1 on, 0 when the piece
\* does not match it.  A piece of the format that is no directive matches
\* itself.
Reads(directive, piece) ==
    CASE directive = "%B" -> IndexIn(MonthFull, piece)
      [] directive = "%b" -> IndexIn(MonthAbbr, piece)
      [] directive = "%d" -> Num(piece)
      [] directive = "%m" -> IF Num(piece) <= 12 THEN Num(piece) ELSE 0
      [] directive = "%Y" -> YearOf(piece)
      [] OTHER -> IF directive = piece THEN 1 ELSE 0

\* The value the text gives for one of the directives, 0 when the format has
\* none of them.
Field(text, f, directives) ==
    IF \E i \in 1..Len(f) : f[i] \in directives
    THEN Reads(f[CHOOSE i \in 1..Len(f) : f[i] \in directives],
               text[CHOOSE i \in 1..Len(f) : f[i] \in directives])
    ELSE 0

\* datetime.strptime(text, fmt) for a text in pieces: the day as the number
\* yyyymmdd, None where it raises ValueError (a piece that does not match,
\* data left over, a day the month does not have).
datetime_strptime(text, fmt) ==
    LET f == Directives(fmt)
    IN  IF Len(text) # Len(f) THEN None
        ELSE IF \E i \in 1..Len(f) : Reads(f[i], text[i]) = 0 THEN None
        ELSE LET y == Field(text, f, {"%Y"})
                 mo == Field(text, f, {"%B", "%b", "%m"})
                 d == Field(text, f, {"%d"})
             IN  IF d > DaysIn(y, mo) THEN None
                 ELSE y * 10000 + mo * 100 + d

\* dt.strftime("%Y-%m-%d")
dt_strftime(day) ==
    <<YearPiece(day \div 10000), "-", TwoDigit[(day \div 100) % 100], "-",
      TwoDigit[day % 100]>>

\* str.strip(): the blanks at both ends go.
RECURSIVE lstrip(_)
lstrip(text) ==
    IF text # <<>> /\ Head(text) = " " THEN lstrip(Tail(text)) ELSE text

RECURSIVE rstrip(_)
rstrip(text) ==
    IF text # <<>> /\ text[Len(text)] = " "
    THEN rstrip(SubSeq(text, 1, Len(text) - 1))
    ELSE text

strip(text) == rstrip(lstrip(text))

\* piece.replace("Sept", "Sep") for the pieces that hold "Sept".
ReplaceSeptIn(piece) ==
    IF piece = "September" THEN "Sepember"
    ELSE IF piece = "Sept" THEN "Sep"
    ELSE IF piece = "Septt" THEN "Sept"
    ELSE piece

\* text.replace("Sept", "Sep")
replace_Sept(text) == [i \in 1..Len(text) |-> ReplaceSeptIn(text[i])]

\* text.split("|")[0]: what stands before the first bar.
RECURSIVE split_bar(_)
split_bar(text) ==
    IF text = <<>> \/ Head(text) = "|" THEN <<>>
    ELSE <<Head(text)>> \o split_bar(Tail(text))

\* A value of Python: a str with its text, or None.
Str(text) == [type |-> "str", text |-> text]
PyNone == [type |-> "NoneType", text |-> <<>>]

\* How a call ends: it returns a value, or it raises.
Return(v) == [raised |-> FALSE, value |-> v]
Raised == [raised |-> TRUE, value |-> PyNone]

\* not x
Falsy(x) == x = PyNone \/ x.text = <<>>

\* The day the first of the formats that parses the text gives, None when
\* none of them does.
RECURSIVE FirstParse(_, _)
FirstParse(text, fmts) ==
    IF fmts = <<>> THEN None
    ELSE IF datetime_strptime(text, Head(fmts)) # None
         THEN datetime_strptime(text, Head(fmts))
         ELSE FirstParse(text, Tail(fmts))

\* try: strptime(date_str.strip(), fmt) for every format; at the end
\* return date_str.strip().
StripAndTry(x, fmts) ==
    LET s == strip(x.text)
        d == FirstParse(s, fmts)
    IN  Return(Str(IF d # None THEN dt_strftime(d) ELSE s))

\* normalize_date of getAdtranPRPages1To5.py, getRibbonPR2025.py and
\* getZhonePR2025.py.  With None, date_str.strip() raises AttributeError in
\* the try, and again in the except branch.
normalize_date_Adtran(x) ==
    IF x = PyNone THEN Raised ELSE StripAndTry(x, <<"%B %d, %Y">>)

\* normalize_date of getSmartopticsPR2025.py
normalize_date_Smartoptics(x) ==
    IF x = PyNone THEN Raised ELSE StripAndTry(x, <<"%Y-%m-%d">>)

\* normalize_date of getHuaweiPR2025.py
normalize_date_Huawei(x) ==
    IF x = PyNone THEN Raised
    ELSE StripAndTry(x, <<"%b %d, %Y", "%B %d, %Y", "%Y-%m-%d">>)

\* normalize_date of getZTEPR2025.py
normalize_date_ZTE(x) ==
    IF x = PyNone THEN Raised
    ELSE StripAndTry(x, <<"%Y-%m-%d", "%Y.%m.%d", "%b %d, %Y">>)

\* normalize_date of getEkinopsPR2025.py
normalize_date_Ekinops(x) ==
    IF Falsy(x) THEN Return(Str(<<>>)) ELSE StripAndTry(x, <<"%d %B %Y">>)

\* normalize_date of getCalixPRLoadMoreDateOK.py
normalize_date_Calix(x) ==
    IF Falsy(x) THEN Return(Str(<<>>))
    ELSE LET date_str == replace_Sept(strip(x.text))
             d == FirstParse(date_str,
                             <<"%B %d, %Y", "%b %d, %Y", "%Y-%m-%d">>)
         IN  Return(Str(IF d # None THEN dt_strftime(d) ELSE strip(date_str)))

\* DATE_RE.search(s): the first run of pieces that reads as a month name, a
\* number of one or two digits, a comma and a year; <<>> when there is none.
MatchesDateRE(s, i) ==
    /\ IndexIn(MonthFull, s[i]) # 0
    /\ s[i + 1] = " "
    /\ Num(s[i + 2]) # 0
    /\ s[i + 3] = ","
    /\ s[i + 4] = " "
    /\ YearOf(s[i + 5]) # 0

DATE_RE_search(s) ==
    LET found == {i \in 1..(Len(s) - 5) : MatchesDateRE(s, i)}
    IN  IF found = {} THEN <<>>
        ELSE LET i == CHOOSE j \in found : \A k \in found : j <= k
             IN  SubSeq(s, i, i + 5)

\* normalize_date of getCienaPR2025.py: the strptime of the match of DATE_RE
\* stands in no try.
normalize_date_Ciena(x) ==
    LET s == strip(IF Falsy(x) THEN <<>> ELSE x.text)
        d == FirstParse(s, <<"%Y-%m-%d", "%Y/%m/%d", "%B %d, %Y",
                             "%b %d, %Y">>)
        m == DATE_RE_search(s)
    IN  IF d # None THEN Return(Str(dt_strftime(d)))
        ELSE IF m # <<>>
             THEN (IF datetime_strptime(m, "%B %d, %Y") = None THEN Raised
                   ELSE Return(Str(dt_strftime(
                            datetime_strptime(m, "%B %d, %Y")))))
             ELSE Return(Str(s))

\* normalize_date of getNokiaPRDateUpdated.py
normalize_date_Nokia(x) ==
    IF Falsy(x) \/ x.text = <<"(No date)">> THEN Return(x)
    ELSE LET raw == strip(split_bar(x.text))
             d == FirstParse(raw, <<"%d%b%Y", "%B %d, %Y", "%d %B %Y",
                                    "%Y-%m-%d">>)
         IN  Return(Str(IF d # None THEN dt_strftime(d) ELSE strip(raw)))

\* The scripts that have a normalize_date, by their COMPANY constant.
DateScripts ==
    {"Adtran", "Calix", "Ciena", "Ekinops", "Huawei", "Nokia",
     "Ribbon Communications", "Smartoptics", "ZTE", "Zhone Technologies"}

\* normalize_date(x) of a script.
NormalizeDate(script, x) ==
    CASE script \in {"Adtran", "Ribbon Communications", "Zhone Technologies"}
             -> normalize_date_Adtran(x)
      [] script = "Smartoptics" -> normalize_date_Smartoptics(x)
      [] script = "Huawei" -> normalize_date_Huawei(x)
      [] script = "ZTE" -> normalize_date_ZTE(x)
      [] script = "Ekinops" -> normalize_date_Ekinops(x)
      [] script = "Calix" -> normalize_date_Calix(x)
      [] script = "Ciena" -> normalize_date_Ciena(x)
      [] script = "Nokia" -> normalize_date_Nokia(x)

\* The piece a directive writes for a day; the numbers of day and month with
\* or without their leading zero.
Piece(directive, y, mo, d, pad) ==
    CASE directive = "%B" -> MonthFull[mo]
      [] directive = "%b" -> MonthAbbr[mo]
      [] directive = "%d" -> IF pad THEN TwoDigit[d] ELSE Plain[d]
      [] directive = "%m" -> IF pad THEN TwoDigit[mo] ELSE Plain[mo]
      [] directive = "%Y" -> YearPiece(y)
      [] OTHER -> directive

\* A full ISO-8601 timestamp, as a format of its own.
Timestamp == "%Y-%m-%dT%H:%M:%SZ"

\* The text of a day in a format.
Written(fmt, y, mo, d, pad) ==
    IF fmt = Timestamp
    THEN [i \in 1..5 |-> Piece(Directives("%Y-%m-%d")[i], y, mo, d, pad)]
             \o <<"T", "09:00:00Z">>
    ELSE [i \in 1..Len(Directives(fmt)) |->
              Piece(Directives(fmt)[i], y, mo, d, pad)]

\* The formats a date text is to be understood in: Month D, YYYY; Mon D,
\* YYYY; YYYY-MM-DD; YYYY/MM/DD; MM/DD/YYYY; DD-Mon-YYYY; DDMonYYYY; a full
\* timestamp.
SupportedFormats ==
    {"%B %d, %Y", "%b %d, %Y", "%Y-%m-%d", "%Y/%m/%d", "%m/%d/%Y",
     "%d-%b-%Y", "%d%b%Y", Timestamp}

\* The formats some script knows besides.
OtherFormats == {"%d %B %Y", "%Y.%m.%d"}

\* The days of the month the texts are written for.
DaysWritten == {5, 20}

\* An argument of normalize_date: the value, and for the text of a day the
\* format it is written in and the day it stands for.
Arg(v, fmt, day) == [value |-> v, fmt |-> fmt, day |-> day]

Blank(text) == <<" ">> \o text \o <<" ">>

\* The texts of real calendar days, bare and with blanks around them.
DateArgs ==
    UNION {{Arg(Str(Written(fmt, 2025, mo, d, pad)), fmt,
                2025 * 10000 + mo * 100 + d),
            Arg(Str(Blank(Written(fmt, 2025, mo, d, pad))), fmt,
                2025 * 10000 + mo * 100 + d)} :
           fmt \in SupportedFormats \cup OtherFormats, mo \in 1..12,
           d \in DaysWritten, pad \in BOOLEAN}

\* The date of an article of Nokia: the day, a bar, the time of day; and the
\* line under a headline that carries the day, a bar and the reading time.
BarArgs ==
    {Arg(Str(Written("%d%b%Y", 2025, mo, d, FALSE) \o <<"|", "09:00">>), "",
         None) : mo \in 1..12, d \in DaysWritten}
    \cup
    {Arg(Str(Written("%b %d, %Y", 2025, mo, d, FALSE)
                 \o <<" ", "|", " ", "4", " ", "min", " ", "read">>), "",
         None) : mo \in 1..12, d \in DaysWritten}

\* Texts that are no date, an absent text, and no text at all.
OddArgs ==
    {Arg(Str(<<"not", " ", "a", " ", "date">>), "", None),
     Arg(Str(Blank(<<"TBD">>)), "", None),
     Arg(Str(<<"TBD", " ", "|", " ", "4", " ", "min", " ", "read">>), "", None),
     Arg(Str(<<"Sept", " ", "5", ",", " ", "2025">>), "", None),
     Arg(Str(<<"Septt", " ", "5", ",", " ", "2025">>), "", None),
     Arg(Str(<<"Posted", " ", "October", " ", "31", ",", " ", "2025">>), "",
         None),
     Arg(Str(<<"February", " ", "30", ",", " ", "2025">>), "", None),
     Arg(Str(<<"(No date)">>), "", None),
     Arg(Str(<<>>), "", None),
     Arg(PyNone, "", None)}

\* No call has been made.
NotCalled == [raised |-> FALSE, value |-> [type |-> "", text |-> <<>>]]

\* date_str = normalize_date(x)
NormalizeCall ==
    /\ nd_out = NotCalled
    /\ nd_out' = NormalizeDate(scraper, nd_in.value)
    /\ UNCHANGED <<file, pre, lastIn, scraper, outcome, repeated, concVars,
                   crawlVars, runVars, nd_in, downVars>>

InitDates ==
    /\ scraper \in DateScripts
    /\ nd_in \in DateArgs \cup BarArgs \cup OddArgs
    /\ nd_out = NotCalled
    /\ IdleDown
    /\ file = NoFile
    /\ pre = NoFile
    /\ lastIn = <<>>
    /\ outcome = "none"
    /\ repeated = FALSE
    /\ IdleConc
    /\ IdleCrawl
    /\ IdleRun

\* One call of normalize_date of one script.
SpecDates == InitDates /\ [][NormalizeCall]_vars

\* normalize_date has been called with the text of a real calendar day in
\* one of the supported formats.
ReturnedFor(fmts) == nd_out # NotCalled /\ nd_in.fmt \in fmts

\* C18: for the text of a real calendar day in a supported format, in every
\* month of the year, normalize_date returns the YYYY-MM-DD text of that day.
C18_SupportedFormatsToISO ==
    ReturnedFor(SupportedFormats)
        => nd_out = Return(Str(dt_strftime(nd_in.day)))

\* The text has the form YYYY-MM-DD.
IsISO(text) ==
    /\ datetime_strptime(text, "%Y-%m-%d") # None
    /\ text = dt_strftime(datetime_strptime(text, "%Y-%m-%d"))

\* C19: for a text, normalize_date returns a text of the form YYYY-MM-DD, or
\* the text it was given without the blanks around it and with nothing else
\* altered.
C19_ISOOrTrimmedOriginal ==
    (nd_out # NotCalled /\ nd_in.value.type = "str")
        => /\ ~nd_out.raised
           /\ nd_out.value.type = "str"
           /\ \/ IsISO(nd_out.value.text)
              \/ nd_out.value.text = strip(nd_in.value.text)

\* C20: normalize_date returns a text and raises nothing, whatever it is
\* given: a text of no piece, a text that is no date, or None.
C20_NormalizeDateTotal ==
    nd_out # NotCalled => (~nd_out.raised /\ nd_out.value.type = "str")

\* The text holds the separator "|".
HasBar(text) == \E i \in 1..Len(text) : text[i] = "|"

\* C21: for a text that holds the separator "|", normalize_date of every
\* script returns what it returns for the segment before the first "|" alone.
C21_SegmentBeforeBar ==
    (nd_out # NotCalled /\ nd_in.value.type = "str"
       /\ HasBar(nd_in.value.text))
        => nd_out = NormalizeDate(scraper, Str(split_bar(nd_in.value.text)))

\* C21 for the one script that splits at the bar.
C21_SegmentBeforeBarNokia ==
    scraper = "Nokia" => C21_SegmentBeforeBar

-----------------------------------------------------------------------------
(* The crawls with no cutoff: main() of getNokiaPRDateUpdated.py reads one  *)
(* listing and takes every card that has a link; main() of                  *)
(* getAdtranPRPages1To5.py collects the links of five listing pages and     *)
(* reads the date off the page of every link.                               *)

PlainCrawlers == {"Nokia", "Adtran"}

\* The longest listing of a crawl with no cutoff.
PlainItems == 2

\* The date a card or an article page shows: whether the element is there
\* (.pp_date of Nokia, <time> of Adtran), its text, and its datetime attribute.
DateEl(el, text, datetime) == [el |-> el, text |-> text, datetime |-> datetime]

NoDateEl == DateEl(FALSE, "", "")

\* "20Mar2025|09:00 AMEurope/Amsterdam": the day, a bar, the time of day.
WithTime(text) ==
    CASE text = "01Feb2025" -> "01Feb2025|09:00 AMEurope/Amsterdam"
      [] text = Garbled -> "TBD|09:00 AMEurope/Amsterdam"
      [] OTHER -> text

\* date_str.split("|")[0].strip()
BeforeBar(text) ==
    CASE text = "01Feb2025|09:00 AMEurope/Amsterdam" -> "01Feb2025"
      [] text = "TBD|09:00 AMEurope/Amsterdam" -> Garbled
      [] OTHER -> text

\* A month and a day number the month does not have.
UnrealDay == "February 30, 2025"

\* The dates a source with no cutoff may show.
PlainDates(c) ==
    IF c = "Nokia"
    THEN {NoDateEl, DateEl(TRUE, "", "")}
             \cup {DateEl(TRUE, t, "") : t \in {"01Feb2025", Garbled}}
             \cup {DateEl(TRUE, WithTime(t), "") : t \in {"01Feb2025", Garbled}}
    ELSE {NoDateEl, DateEl(TRUE, "February 01, 2025", ""),
          DateEl(TRUE, UnrealDay, ""), DateEl(TRUE, Garbled, ""),
          DateEl(TRUE, Garbled, "2025-02-01T09:00:00")}

\* The addresses of Adtran's articles and the headline title_from_url derives
\* from each: the last segment without a leading date, its dashes turned into
\* blanks, its first letter a capital.
AdtranLinks ==
    <<"https://www.adtran.com/en/newsroom/press-releases/20250201-q1-results",
      "https://www.adtran.com/en/newsroom/press-releases/new-product",
      "https://www.adtran.com/en/newsroom/press-releases/field-trial">>

AdtranTitles == <<"Q1 results", "New product", "Field trial">>

title_from_url(url) ==
    AdtranTitles[CHOOSE i \in 1..Len(AdtranLinks) : AdtranLinks[i] = url]

\* The i-th card of Nokia's listing (href "" when the anchor has none) or
\* the i-th link of Adtran's pages with the page behind it.
PlainItem(c, i, d, href) ==
    [title |-> ItemTitles[i],
     link |-> IF c = "Adtran" THEN AdtranLinks[i]
              ELSE IF href THEN ItemLinks[i] ELSE "",
     date |-> d]

PlainSites(c) ==
    UNION {{[i \in 1..k |-> PlainItem(c, i, d[i], h[i])] :
                d \in [1..k -> PlainDates(c)],
                h \in [1..k -> IF c = "Nokia" THEN BOOLEAN ELSE {TRUE}]} :
           k \in 0..PlainItems}

\* DATE_RE.search(txt) of getAdtranPRPages1To5.py on the texts of the model.
DATE_RE_matches(txt) ==
    \/ \E e \in DateTable : e.fmt = "%B %d, %Y" /\ e.text = txt
    \/ txt = UnrealDay

\* normalize_date of getNokiaPRDateUpdated.py and getAdtranPRPages1To5.py on
\* a text: Nokia's returns "" and "(No date)" as they are and reads what
\* stands before the first bar.
normalize_date_plain(c, date_str) ==
    IF c = "Nokia"
    THEN (IF date_str \in {"", "(No date)"} THEN date_str
          ELSE normalize_date(c, BeforeBar(date_str)))
    ELSE normalize_date(c, date_str)

\* date of a record: Nokia's main() reads the date element of the card,
\* "(No date)" when it is missing; extract_date of Adtran reads <time>, its
\* text first and its datetime attribute next, "(No date found)" otherwise.
extract_date(c, d) ==
    IF c = "Nokia"
    THEN normalize_date_plain(c, IF d.el THEN d.text ELSE "(No date)")
    ELSE IF d.el /\ DATE_RE_matches(d.text) THEN normalize_date_plain(c, d.text)
    ELSE IF d.el /\ d.datetime # "" THEN normalize_date_plain(c, d.datetime)
    ELSE "(No date found)"

\* A main() that leaves out a record whose date is no YYYY-MM-DD text.
plain_append_dated_only(c, rows, item, date) ==
    IF ParseISO(date) = None THEN rows
    ELSE Append(rows, CrawlRow(c, item.title, item.link, date, Len(rows) + 2))

\* rows.append({...}) of the two main(): Adtran's title comes from the link.
plain_append(c, rows, item, date) ==
    Append(rows,
           CrawlRow(c, IF c = "Adtran" THEN title_from_url(item.link)
                       ELSE item.title,
                    item.link, date, Len(rows) + 2))

\* The requests that bring the listing: one of Nokia; get_page_path_id and
\* five pages of Adtran.
ListRequests(c) == IF c = "Adtran" THEN 6 ELSE 1

\* The listing is requested; raise_for_status ends main() on a failure.
PList ==
    /\ cpc = "plist"
    /\ \E k \in 1..ListRequests(crawler), ok \in BOOLEAN :
           /\ ok => k = ListRequests(crawler)
           /\ requests' = Tally(requests, k)
           /\ fetchFailed' = (fetchFailed \/ ~ok)
           /\ cpc' = IF ~ok THEN "crashed"
                     ELSE IF site = <<>> THEN "psave"
                     ELSE IF crawler = "Adtran" THEN "pdetail" ELSE "parse"
    /\ itemNo' = 1
    /\ UNCHANGED <<file, mergeVars, concVars, runVars, dateVars, downVars, crawler,
                   site, pageNo, all_rows, seen_links, evaluated, oldSeen>>

\* The next pass of the loop over the cards or links, or the end of the loop.
PlainAdvance ==
    IF itemNo < Len(site)
    THEN /\ itemNo' = itemNo + 1
         /\ cpc' = IF crawler = "Adtran" THEN "pdetail" ELSE "parse"
    ELSE /\ itemNo' = 1
         /\ cpc' = "psave"

\* html = requests.get(url, ...).text of Adtran's loop: an exception is
\* printed and the loop goes on with the next link.
PDetail ==
    /\ cpc = "pdetail"
    /\ requests' = Tally(requests, 1)
    /\ \E ok \in BOOLEAN :
           /\ fetchFailed' = (fetchFailed \/ ~ok)
           /\ IF ok THEN cpc' = "parse" /\ UNCHANGED itemNo
              ELSE PlainAdvance
    /\ UNCHANGED <<file, mergeVars, concVars, runVars, dateVars, downVars, crawler,
                   site, pageNo, all_rows, seen_links, evaluated, oldSeen>>

\* The rest of one pass: a card of Nokia with no href is passed over; the
\* date is read and normalized and the record appended.
PParse ==
    /\ cpc = "parse"
    /\ evaluated' = Tally(evaluated, 1)
    /\ all_rows' = IF site[itemNo].link = "" THEN all_rows
                   ELSE plain_append(crawler, all_rows, site[itemNo],
                                     extract_date(crawler, site[itemNo].date))
    /\ PlainAdvance
    /\ UNCHANGED <<file, mergeVars, concVars, runVars, dateVars, downVars, crawler,
                   site, pageNo, seen_links, requests, oldSeen, fetchFailed>>

\* if rows: save_to_master(df_new)
PSave ==
    /\ cpc = "psave"
    /\ IF all_rows = <<>>
       THEN /\ cpc' = "done"
            /\ UNCHANGED <<file, pre, lastIn, outcome>>
       ELSE /\ \E res \in {save_to_master(crawler, all_rows, file)} :
                   /\ file' = res.file
                   /\ outcome' = res.outcome
                   /\ cpc' = IF res.outcome = "raised" THEN "crashed"
                             ELSE "done"
            /\ pre' = file
            /\ lastIn' = all_rows
    /\ UNCHANGED <<scraper, repeated, concVars, runVars, dateVars, downVars, crawler,
                   site, pageNo, itemNo, all_rows, seen_links, requests,
                   evaluated, oldSeen, fetchFailed>>

InitPlain ==
    /\ file \in {NoFile, HeaderOnly, to_csv(<<NokiaRow>>)}
    /\ crawler \in PlainCrawlers
    /\ site \in PlainSites(crawler)
    /\ cpc = "plist"
    /\ pageNo = 1
    /\ itemNo = 1
    /\ all_rows = <<>>
    /\ seen_links = {}
    /\ requests = 0
    /\ evaluated = 0
    /\ oldSeen = FALSE
    /\ fetchFailed = FALSE
    /\ pre = file
    /\ lastIn = <<>>
    /\ scraper = crawler
    /\ outcome = "none"
    /\ repeated = FALSE
    /\ IdleConc
    /\ IdleRun
    /\ IdleDates
    /\ IdleDown

NextPlain == PList \/ PDetail \/ PParse \/ PSave

\* One run of a script that has no cutoff.
SpecPlain == InitPlain /\ [][NextPlain]_vars

\* The record of the pass is a candidate (it has a link) whose date text is
\* there and does not parse, or is not there at all.
UnparsedCandidate ==
    /\ cpc = "parse"
    /\ site[itemNo].link # ""
    /\ ParseISO(extract_date(crawler, site[itemNo].date)) = None

\* The texts a record with no parsed date may carry as its date: what the
\* source showed, trimmed, or the marker of a missing date.
UnparsedTexts(d) ==
    {d.text, BeforeBar(d.text), d.datetime, "(No date)", "(No date found)"}

\* C22: in a crawl with no cutoff a record whose date does not parse is
\* appended to the rows with the unparsed text or the no-date marker as its
\* date, the pass does not end main(), and the rows collected are what
\* save_to_master is called with.
C22_UnparsedRetainedWithoutCutoff ==
    /\ [][UnparsedCandidate =>
              /\ Len(all_rows') = Len(all_rows) + 1
              /\ SubSeq(all_rows', 1, Len(all_rows)) = all_rows
              /\ all_rows'[Len(all_rows')].link = site[itemNo].link
              /\ all_rows'[Len(all_rows')].date
                     \in UnparsedTexts(site[itemNo].date)
              /\ cpc' # "crashed"]_vars
    /\ [](cpc = "psave" => [](cpc \in {"done", "crashed"} =>
                                 (all_rows = <<>> \/ lastIn = all_rows)))

\* A crawl with no cutoff has handed save_to_master a record whose date is no
\* YYYY-MM-DD text.
C22_Witness ==
    /\ crawler \in PlainCrawlers
    /\ cpc = "done"
    /\ outcome = "written"
    /\ \E i \in 1..Len(lastIn) : ParseISO(lastIn[i].date) = None
    /\ \E i \in 1..Len(lastIn) : ParseISO(lastIn[i].date) # None

-----------------------------------------------------------------------------
(* What save_to_master prints when it has written.                          *)

\* The number in "Added {n} ... press releases": len(df_new) in the variant
\* of getCienaPR2025.py, len(only_new) in the two others; None on the paths
\* that print no count.
added_count(script, df_new, f) ==
    IF merge_plan(script, df_new, f).outcome # "written" THEN None
    ELSE IF script \in ShortcutScripts THEN Len(df_new)
    ELSE Len(only_new(df_new, load_master(f).df))

\* The count the last call printed.
Reported == added_count(scraper, lastIn, pre)

\* C23: the count a save_to_master call reports as added is the number of
\* rows the call appended to the store.
C23_ReportedCountIsAppended ==
    outcome = "written" => Reported = Len(file.rows) - Len(pre.rows)

\* C23 for the variants that count only_new.
C23_ReportedCountIsAppendedPlain ==
    (outcome = "written" /\ scraper \notin ShortcutScripts)
        => Reported = Len(file.rows) - Len(pre.rows)

-----------------------------------------------------------------------------
(* The readers of the store: the dashboard (load_data and filter_df of      *)
(* app2.py) and the weekly digest (load_recent_press_releases of            *)
(* send_weekly.py).                                                         *)

\* The most rows of a store a reader is run on.
ViewRows == 2

\* A value that is no date: pd.NaT, or the None of _parse_date_any.
NaT == None

\* s.astype(str): a missing value becomes the text "nan".
astype_str(v) == IF v = NaN THEN "nan" ELSE v

\* possible_formats of load_data.
possible_formats ==
    <<"%Y-%m-%d", "%Y/%m/%d", "%b %d, %Y", "%B %d, %Y", "%m/%d/%Y",
      "%d-%b-%Y", "%Y-%m-%dT%H:%M:%SZ">>

\* The day the first of the formats reads in the text, NaT when none does:
\* pd.to_datetime(..., errors="coerce") per format joined by combine_first,
\* and the loop over the formats of _parse_date_any.
RECURSIVE to_datetime(_, _)
to_datetime(text, fmts) ==
    IF fmts = <<>> THEN NaT
    ELSE IF strptime(text, Head(fmts)) # None THEN strptime(text, Head(fmts))
    ELSE to_datetime(text, Tail(fmts))

\* .astype(str).replace({"nan": "", "NaN": ""}).fillna("")
clean_text(v) == IF astype_str(v) \in {"nan", "NaN"} THEN "" ELSE astype_str(v)

\* One row of the frame load_data returns.
LoadedRow(r) ==
    [r EXCEPT !.company = astype_str(r.company),
              !.title = astype_str(r.title),
              !.date = to_datetime(astype_str(r.date), possible_formats),
              !.summary_ai = clean_text(r.summary_ai),
              !.impact_for_zhone = clean_text(r.impact_for_zhone)]

\* load_data() of app2.py: st.stop() when the file is absent, cannot be read
\* or holds no row; the frame it returns and the file it leaves.
load_data(f) ==
    IF ~f.exists \/ ~read_csv(f).ok \/ read_csv(f).df = <<>>
    THEN [ok |-> FALSE, df |-> <<>>, file |-> f]
    ELSE [ok |-> TRUE, df |-> MapSeq(LoadedRow, read_csv(f).df), file |-> f]

\* text.lower() contains q, for the texts and the queries of the model.
Contains(text, q) ==
    \/ q = "q1" /\ text \in {"Q1 Results", "Nokia reports Q1."}
    \/ q = "new" /\ text \in {"New Product"}

Range(s) == {s[i] : i \in 1..Len(s)}

\* The rows of f a filter keeps, in their order.
RECURSIVE Select(_, _)
Select(f, keep) ==
    IF f = <<>> THEN <<>>
    ELSE (IF Head(f) \in keep THEN <<Head(f)>> ELSE <<>>)
             \o Select(Tail(f), keep)

\* r stands before q in sort_values("date", ascending=False): the later day
\* first, the rows without a date last.
Before(r, q) == r.date # NaT /\ (q.date = NaT \/ r.date > q.date)

RECURSIVE Insert(_, _)
Insert(r, sorted) ==
    IF sorted = <<>> THEN <<r>>
    ELSE IF Before(r, Head(sorted)) THEN <<r>> \o sorted
    ELSE <<Head(sorted)>> \o Insert(r, Tail(sorted))

RECURSIVE sort_values(_)
sort_values(f) ==
    IF f = <<>> THEN <<>>
    ELSE Insert(f[Len(f)], sort_values(SubSeq(f, 1, Len(f) - 1)))

\* f[f["company"].isin(companies)], when any company is selected.
ByCompany(f, companies) ==
    IF companies # {}
    THEN Select(f, {r \in Range(f) : r.company \in companies})
    ELSE f

\* The three filters of filter_df and its sort, on a frame.
Filtered(f, companies, date_range, query) ==
    LET f1 == ByCompany(f, companies)
        f2 == IF date_range # <<>>
              THEN Select(f1, {r \in Range(f1) :
                                   /\ r.date # NaT
                                   /\ r.date >= date_range[1]
                                   /\ r.date <= date_range[2]})
              ELSE f1
        f3 == IF query # ""
              THEN Select(f2, {r \in Range(f2) :
                                   \/ Contains(r.title, query)
                                   \/ Contains(r.summary_ai, query)
                                   \/ Contains(r.impact_for_zhone, query)})
              ELSE f2
    IN  sort_values(f3)

\* A filter_df that filters and sorts the frame it was given.
filter_df_in_place(frame, companies, date_range, query) ==
    IF Len(date_range) = 1
    THEN {[raised |-> TRUE, df |-> frame, f |-> <<>>]}
    ELSE {[raised |-> FALSE,
           df |-> Filtered(frame, companies, date_range, query),
           f |-> Filtered(frame, companies, date_range, query)]}

\* filter_df(df, companies, date_range, query) of app2.py: how the call may
\* end, the frame of the caller after it, and the frame returned.  It works
\* on f = df.copy(); a date_range of one day raises at the unpacking; where
\* a row has no date, the comparison with the range either leaves the row
\* out or raises, by the version of pandas.
filter_df(frame, companies, date_range, query) ==
    IF Len(date_range) = 1
    THEN {[raised |-> TRUE, df |-> frame, f |-> <<>>]}
    ELSE {[raised |-> FALSE, df |-> frame,
           f |-> Filtered(frame, companies, date_range, query)]}
         \cup
         (IF /\ date_range # <<>>
             /\ \E r \in Range(ByCompany(frame, companies)) : r.date = NaT
          THEN {[raised |-> TRUE, df |-> frame, f |-> <<>>]}
          ELSE {})

\* The day the digest is built on, and the days before it: datetime.now()
\* less timedelta(days).
Today == 20250203
WINDOW_DAYS == 7
DaysAgo(days) ==
    CASE days = 7 -> 20250127
      [] days = 8 -> 20250126
      [] days = 90 -> 20241105

\* _parse_date_any(s): five formats, then dateutil, which reads none of the
\* texts of the model that the formats left.
parse_date_any(s) ==
    to_datetime(s, <<"%Y-%m-%d", "%Y/%m/%d", "%d-%m-%Y",
                     "%Y-%m-%d %H:%M:%S", "%b %d, %Y">>)

DigestItem(r) ==
    [title |-> r.title, url |-> r.link, source |-> r.company,
     date |-> parse_date_any(r.date)]

\* The rows load_recent_press_releases takes: title, link and date are there,
\* the date is read, it is of 2025 or later where that is asked for, and it
\* is not before the cutoff.
Recent(r, days, require_2025_plus) ==
    /\ r.title # "" /\ r.link # "" /\ r.date # ""
    /\ parse_date_any(r.date) # NaT
    /\ ~(require_2025_plus /\ parse_date_any(r.date) < 20250101)
    /\ parse_date_any(r.date) >= DaysAgo(days)

\* load_recent_press_releases(csv_path, days) of send_weekly.py: the file is
\* opened for reading; the list returned and the file it leaves.
load_recent_press_releases(f, days, require_2025_plus) ==
    [out |-> IF ~f.exists THEN <<>>
             ELSE sort_values(
                      MapSeq(DigestItem,
                             Select(f.rows,
                                    {r \in Range(f.rows) :
                                         Recent(r, days, require_2025_plus)}))),
     file |-> f]

\* df = load_data() at the start of the dashboard.
VLoad ==
    /\ dpc = "start"
    /\ \E res \in {load_data(file)} :
           /\ file' = res.file
           /\ ddf' = res.df
           /\ dpc' = IF res.ok THEN "loaded" ELSE "stopped"
    /\ UNCHANGED <<mergeVars, concVars, crawlVars, runVars, dateVars, didx,
                   shown, file0>>

\* The choices of the sidebar.
CompanyChoices == {{}, {"Nokia"}, {"Nokia", "Ciena"}}
RangeChoices == {<<>>, <<20250101>>, <<20250101, 20250301>>}
QueryChoices == {"", "q1", "zzz"}

\* filtered = filter_df(df, selected_companies, selected_range, query), on
\* every run of the page.
VFilter ==
    /\ dpc = "loaded"
    /\ \E companies \in CompanyChoices, date_range \in RangeChoices,
          query \in QueryChoices :
           \E res \in filter_df(ddf, companies, date_range, query) :
               /\ ddf' = res.df
               /\ shown' = res.f
    /\ UNCHANGED <<file, mergeVars, concVars, crawlVars, runVars, dateVars,
                   dpc, didx, file0>>

\* items = load_recent_press_releases(CSV_FILE, WINDOW_DAYS) of the digest.
VDigest ==
    /\ dpc = "digest"
    /\ \E days \in {WINDOW_DAYS, 90}, require_2025_plus \in BOOLEAN :
           \E res \in {load_recent_press_releases(file, days,
                                                  require_2025_plus)} :
               /\ file' = res.file
               /\ shown' = res.out
    /\ dpc' = "sent"
    /\ UNCHANGED <<mergeVars, concVars, crawlVars, runVars, dateVars, ddf,
                   didx, file0>>

\* The rows of the stores the readers are run on.
ViewDates == {"2025-02-01", "Dec 01, 2024", Garbled, ""}

ViewRow(i, company, date, summarized) ==
    [id |-> i, company |-> company, title |-> ItemTitles[i],
     link |-> ItemLinks[i], date |-> date, fetched_at |-> 1,
     summary_ai |-> IF summarized THEN "Nokia reports Q1." ELSE "",
     impact_for_zhone |-> IF summarized THEN "Moderate." ELSE ""]

ViewFiles ==
    {NoFile, ZeroByte}
        \cup UNION {{to_csv([i \in 1..k |-> ViewRow(i, c[i], d[i], z[i])]) :
                         c \in [1..k -> {"Nokia", "Ciena"}],
                         d \in [1..k -> ViewDates],
                         z \in [1..k -> BOOLEAN]} :
                    k \in 0..ViewRows}

InitView ==
    /\ file \in ViewFiles
    /\ file0 = file
    /\ dpc \in {"start", "digest"}
    /\ ddf = <<>>
    /\ didx = 1
    /\ shown = <<>>
    /\ IdleMerge
    /\ IdleConc
    /\ IdleCrawl
    /\ IdleRun
    /\ IdleDates

NextView == VLoad \/ VFilter \/ VDigest

\* One session of the dashboard, or one build of the digest.
SpecView == InitView /\ [][NextView]_vars

\* C24: no step of the dashboard or of the digest writes the store, and the
\* filtering of the dashboard leaves the frame it was given as it was, for
\* every choice of companies, date range and search text.
C24_ConsumersReadOnly ==
    [][file' = file /\ (dpc = "loaded" => ddf' = ddf)]_vars

\* A filter of the dashboard has left rows out and shown the rest.
C24_Witness ==
    dpc = "loaded" /\ shown # <<>> /\ Len(shown) < Len(ddf)

-----------------------------------------------------------------------------
(* The click loop of getCalixPRLoadMoreDateOK.py against a listing that     *)
(* ends: every click on 'Load more' loads some more cards, and the button   *)
(* is gone when all are loaded.                                             *)

\* The longest listing, and the cards one click loads.
MoreItems == 4
MoreStep == 1

\* The date texts of the listing: a day before the cutoff, a day after it, a
\* text that is no date.
MoreTexts == {"December 01, 2024", "February 01, 2025", Garbled}

MoreSites ==
    {Listing(d) : d \in UNION {[1..k -> MoreTexts] : k \in 0..MoreItems}}

\* valid_hrefs: the links of the cards loaded so far.
Loaded == SubSeq(site, 1, Min(pageNo * MoreStep, Len(site)))

\* btn = page.query_selector("button:has-text('Load more')")
HasButton == Len(Loaded) < Len(site)

\* last_years and len(last_years) >= 3 and all(y <= 2024 for y in
\* last_years), last_years being the years of valid_hrefs[-10:].
OnlyOld(valid_hrefs) ==
    /\ Len(valid_hrefs) >= 3
    /\ \A i \in 1..Len(valid_hrefs) :
           i > Len(valid_hrefs) - 10 => LinkOld(valid_hrefs[i])

\* A click loop that goes on for as long as a year from 2025 on is among the
\* last links, button or no button.
click_loop_no_button_test(valid_hrefs, btn) ==
    IF valid_hrefs = <<>> THEN "break"
    ELSE IF OnlyOld(valid_hrefs) THEN "break"
    ELSE "click"

\* A click loop without the test of the years.
click_loop_no_year_test(valid_hrefs, btn) ==
    IF valid_hrefs = <<>> THEN "break"
    ELSE IF ~btn THEN "break"
    ELSE "click"

\* One pass of the click loop up to the click: the three ways out of it.
click_loop(valid_hrefs, btn) ==
    IF valid_hrefs = <<>> THEN "break"
    ELSE IF OnlyOld(valid_hrefs) THEN "break"
    ELSE IF ~btn THEN "break"
    ELSE "click"

\* The head of the click loop.
MMore ==
    /\ cpc = "more"
    /\ cpc' = IF click_loop(Loaded, HasButton) = "click" THEN "click"
              ELSE IF Loaded = <<>> THEN "fsave"
              ELSE "mdetail"
    /\ itemNo' = 1
    /\ UNCHANGED <<file, mergeVars, concVars, runVars, dateVars, downVars,
                   crawler, site, pageNo, all_rows, seen_links, requests,
                   evaluated, oldSeen, fetchFailed>>

\* btn.click(); click_count += 1; page.wait_for_timeout(2000)
MClick ==
    /\ cpc = "click"
    /\ pageNo' = Min(pageNo + 1, MoreItems)
    /\ requests' = Tally(requests, 1)
    /\ cpc' = "more"
    /\ UNCHANGED <<file, mergeVars, concVars, runVars, dateVars, downVars,
                   crawler, site, itemNo, all_rows, seen_links, evaluated,
                   oldSeen, fetchFailed>>

\* One pass of the loop over the cards of html = page.content(): the cards
\* loaded when the click loop was left.
MDetail ==
    /\ cpc = "mdetail"
    /\ evaluated' = Tally(evaluated, 1)
    /\ requests' = Tally(requests, 1)
    /\ \E ok \in BOOLEAN :
           LET item == Loaded[itemNo]
               date_str == detail_date(crawler, item, ok)
               date_obj == ParseISO(date_str)
           IN  /\ fetchFailed' = (fetchFailed \/ ~ok)
               /\ oldSeen' = (oldSeen \/ (date_obj # None /\ date_obj < CUTOFF))
               /\ all_rows' =
                      IF classify(crawler, date_obj) = "keep"
                      THEN Append(all_rows,
                                  CrawlRow(crawler, item.title, item.link,
                                           date_str, Len(all_rows) + 2))
                      ELSE all_rows
    /\ IF itemNo < Len(Loaded)
       THEN itemNo' = itemNo + 1 /\ UNCHANGED cpc
       ELSE itemNo' = 1 /\ cpc' = "fsave"
    /\ UNCHANGED <<file, mergeVars, concVars, runVars, dateVars, downVars,
                   crawler, site, pageNo, seen_links>>

InitMore ==
    /\ file \in {NoFile, to_csv(<<NokiaRow>>)}
    /\ crawler = "Calix"
    /\ site \in MoreSites
    /\ cpc = "more"
    /\ pageNo = 1
    /\ itemNo = 1
    /\ all_rows = <<>>
    /\ seen_links = {}
    /\ requests = 0
    /\ evaluated = 0
    /\ oldSeen = FALSE
    /\ fetchFailed = FALSE
    /\ pre = file
    /\ lastIn = <<>>
    /\ scraper = crawler
    /\ outcome = "none"
    /\ repeated = FALSE
    /\ IdleConc
    /\ IdleRun
    /\ IdleDates
    /\ IdleDown

NextMore == MMore \/ MClick \/ MDetail \/ FSave

\* One run of getCalixPRLoadMoreDateOK.py.
SpecMore == InitMore /\ [][NextMore]_vars

\* One run of a script that asks its source for more until the source has
\* no more: a paginating script, or the click loop of Calix.
InitExhaust == InitCrawl \/ InitMore

NextExhaust == NextCrawl \/ NextMore

SpecExhaust == InitExhaust /\ [][NextExhaust]_vars

\* The source has just reported that it has no further content: the page
\* asked for holds no record, or the page loaded shows no 'Load more'.
Exhausted ==
    \/ cpc = "fetch" /\ Page(pageNo) = <<>>
    \/ cpc = "more" /\ crawler = "Calix" /\ ~HasButton

\* main() is past its page loop or click loop.
PastLoop == cpc \in {"save", "mdetail", "fsave", "done", "crashed"}

\* C25: when the source reports no further content, the loop is left,
\* whether or not a record older than the cutoff was seen; past the loop no
\* further page is asked for; and a main() that ends has handed the records
\* it collected to save_to_master.
C25_ExhaustedStops ==
    /\ [][(Exhausted /\ ~fetchFailed /\ ~fetchFailed')
              => (cpc' \in {"save", "mdetail", "fsave"}
                    /\ pageNo' = pageNo)]_vars
    /\ [][PastLoop => (PastLoop' /\ pageNo' = pageNo)]_vars
    /\ [](cpc = "done" => lastIn = all_rows)

\* A crawl went past its first page, met no record older than the cutoff,
\* ended when the source had no more, and saved the records it had.
C25_Witness ==
    /\ cpc = "done"
    /\ pageNo > 1
    /\ ~oldSeen
    /\ ~fetchFailed
    /\ all_rows # <<>>
    /\ lastIn = all_rows
    /\ outcome = "written"

\* Among the last 10 links loaded there is one of a year up to 2024.
TailHasOld ==
    \E i \in 1..Len(Loaded) : i > Len(Loaded) - 10 /\ LinkOld(Loaded[i])

-----------------------------------------------------------------------------
(* The summarizer: main() of summarize_press_releases_external.py reads the *)
(* store once, and for every row without a summary fetches the article,     *)
(* asks for summary and impact, and saves the whole frame.  The store it is *)
(* run on is UTF-8 without a byte order mark, as the summarizer and the     *)
(* scripts of Adtran, Nokia, Zhone and ZTE write it.                        *)

\* The most rows of a store the summarizer is run on.
SumRows == 2

\* The rows that lie within the 4096 bytes main() hands to chardet.
SniffRows == 1

NonAscii(f, n) ==
    \E i \in 1..Len(f.rows) : i <= n /\ f.rows[i].title = Utf8Title

\* chardet.detect(raw_data)["encoding"] or "utf-8": bytes that are all ASCII
\* are ASCII; for bytes with a two-byte sequence among them the detector
\* answers UTF-8 or a single-byte code page, by its confidences.
detect(f) ==
    IF NonAscii(f, SniffRows) THEN {"utf-8", "Windows-1252"} ELSE {"ascii"}

\* df = pd.read_csv(CSV_FILE, encoding=encoding), and on any exception the
\* read as latin1, which raises again on a file without a header line.
read_detected(f, encoding) ==
    IF ~f.header THEN [ok |-> FALSE, df |-> <<>>]
    ELSE IF encoding = "utf-8" THEN read_csv(f)
    ELSE IF encoding = "ascii" /\ ~NonAscii(f, Len(f.rows)) THEN read_csv(f)
    ELSE read_csv_latin1(f)

\* .astype(str).replace(["nan", "NaN", " ", "None"], "") on a derived column
clean_derived(v) ==
    IF astype_str(v) \in {"nan", "NaN", " ", "None"} THEN ""
    ELSE astype_str(v)

CleanRow(r) ==
    [r EXCEPT !.summary_ai = clean_derived(r.summary_ai),
              !.impact_for_zhone = clean_derived(r.impact_for_zhone)]

\* The start of main() up to the loop: no file, no run.
SStart ==
    /\ dpc = "sstart"
    /\ IF ~file.exists
       THEN dpc' = "sdone" /\ UNCHANGED ddf
       ELSE \E encoding \in detect(file) :
                \E res \in {read_detected(file, encoding)} :
                    /\ ddf' = MapSeq(CleanRow, res.df)
                    /\ dpc' = IF ~res.ok THEN "scrashed"
                              ELSE IF res.df = <<>> THEN "sdone"
                              ELSE "sloop"
    /\ didx' = 1
    /\ UNCHANGED <<file, mergeVars, concVars, crawlVars, runVars, dateVars,
                   shown, file0>>

\* What get_pr_text and the two query_groq calls may give: no text, or a
\* summary and an impact either of which may be empty.
Answers ==
    {[text |-> FALSE, summary |-> "", impact |-> ""]}
        \cup {[text |-> TRUE, summary |-> s, impact |-> i] :
                  s \in {"", "Summary."}, i \in {"", "Impact."}}

\* One pass of the loop over df.iterrows(): a row with a summary is passed
\* over, as is one whose article gives no text; otherwise the two cells are
\* set and df.to_csv(CSV_FILE, index=False) writes the whole frame.
summarize_row(frame, idx, answer) ==
    IF frame[idx].summary_ai # "" \/ ~answer.text
    THEN [df |-> frame, saved |-> FALSE, out |-> <<>>]
    ELSE [df |-> [frame EXCEPT ![idx].summary_ai = answer.summary,
                               ![idx].impact_for_zhone = answer.impact],
          saved |-> TRUE,
          out |-> [frame EXCEPT ![idx].summary_ai = answer.summary,
                                ![idx].impact_for_zhone = answer.impact]]

SRow ==
    /\ dpc = "sloop"
    /\ \E answer \in Answers :
           \E res \in {summarize_row(ddf, didx, answer)} :
               /\ ddf' = res.df
               /\ file' = IF res.saved THEN to_csv(res.out) ELSE file
    /\ IF didx < Len(ddf)
       THEN didx' = didx + 1 /\ UNCHANGED dpc
       ELSE didx' = 1 /\ dpc' = "sdone"
    /\ UNCHANGED <<mergeVars, concVars, crawlVars, runVars, dateVars, shown,
                   file0>>

\* The rows of the stores the summarizer is run on.
SumRow(i, title, date, summarized) ==
    [id |-> i, company |-> "Nokia", title |-> title, link |-> ItemLinks[i],
     date |-> date, fetched_at |-> 1,
     summary_ai |-> IF summarized THEN "Nokia reports Q1." ELSE "",
     impact_for_zhone |-> IF summarized THEN "Moderate." ELSE ""]

SumTitles == {"Q1 Results", Utf8Title}

SumFiles ==
    {NoFile, ZeroByte}
        \cup UNION {{to_csv([i \in 1..k |-> SumRow(i, t[i], d[i], z[i])]) :
                         t \in [1..k -> SumTitles],
                         d \in [1..k -> {"2025-03-01", "N/A"}],
                         z \in [1..k -> BOOLEAN]} :
                    k \in 0..SumRows}

InitSum ==
    /\ file \in SumFiles
    /\ file0 = file
    /\ dpc = "sstart"
    /\ ddf = <<>>
    /\ didx = 1
    /\ shown = <<>>
    /\ scraper \in Scripts
    /\ pre = file
    /\ lastIn = <<>>
    /\ outcome = "none"
    /\ repeated = FALSE
    /\ IdleConc
    /\ IdleCrawl
    /\ IdleRun
    /\ IdleDates

NextSum == SStart \/ SRow

\* One run of the summarizer, nothing else writing the store.
SpecSum == InitSum /\ [][NextSum]_vars

\* A script's main() reaches its save_to_master, once, at any point of the
\* summarizer's run.
SMerge == outcome = "none" /\ Save

InitSumMerge ==
    /\ InitSum
    /\ \A i \in 1..Len(file.rows) :
           file.rows[i].title # Utf8Title /\ file.rows[i].date # "N/A"

NextSumMerge == SStart \/ SRow \/ SMerge

\* One run of the summarizer on a store of ASCII text while a script merges
\* into it; each to_csv is taken as one step.
SpecSumMerge == InitSumMerge /\ [][NextSumMerge]_vars

\* C27: the rows a save_to_master call has put into the store are in the
\* store when the summarizer ends, also when the call came between the
\* summarizer's read of the store and one of its saves.
C27_SummarizerKeepsMergedRows ==
    (dpc = "sdone" /\ outcome = "written")
        => KeysOf(MapSeq(WriteRow, lastIn)) \subseteq KeysOf(file.rows)

\* C27 for the merges the summarizer's read comes after: the file still
\* holds what the merge wrote while the summarizer has not yet read it.
C27_MergeBeforeRead ==
    (dpc = "sstart" /\ outcome = "written")
        => KeysOf(MapSeq(WriteRow, lastIn)) \subseteq KeysOf(file.rows)

\* The row is as it was, but for the two derived fields where its summary
\* was empty.
SameButDerived(old, new) ==
    /\ new.id = old.id /\ new.company = old.company /\ new.title = old.title
    /\ new.link = old.link /\ new.date = old.date
    /\ new.fetched_at = old.fetched_at
    /\ old.summary_ai # ""
           => (new.summary_ai = old.summary_ai
                 /\ new.impact_for_zhone = old.impact_for_zhone)

\* C28: throughout a run of the summarizer the store holds the rows it held
\* at the start, in their order, each with its id, company, title, link,
\* date and fetched_at, and with its summary and impact where it had a
\* summary.
C28_SummarizerFrame ==
    /\ Len(file.rows) = Len(file0.rows)
    /\ \A i \in 1..Len(file.rows) : SameButDerived(file0.rows[i], file.rows[i])

\* C28 on stores whose every text is ASCII and no NA text.
C28_SummarizerFrameAscii ==
    (\A i \in 1..Len(file0.rows) :
         file0.rows[i].title # Utf8Title /\ file0.rows[i].date # "N/A")
        => C28_SummarizerFrame

-----------------------------------------------------------------------------
(* A batch of records that are all stored already.                          *)

\* The last call was given a batch that is not empty and whose every record
\* the merge matched with a stored row on (company, title).
AllStored ==
    /\ Called
    /\ lastIn # <<>>
    /\ pre.header
    /\ \A i \in 1..Len(lastIn) :
           Matches(lastIn[i], read_csv(pre).df) # {}

\* C29: a save_to_master call whose batch is not empty and holds only
\* records whose (company, title) is stored already writes nothing to the
\* store file, whichever script it belongs to.
C29_AllDuplicatesNoWrite ==
    AllStored => (outcome # "written" /\ file = pre)

\* C29 for the variants of Adtran and ZTE.
C29_AllDuplicatesNoWritePlain ==
    (AllStored /\ scraper \notin ShortcutScripts)
        => (outcome # "written" /\ file = pre)

\* ---------------------------------------------------------------------
\* normalize_date applied to its own result

\* The text the replacement of "Sept" turns into another text holding "Sept".
Septt == <<"Septt", " ", "5", ",", " ", "2025">>

\* C30: normalize_date is idempotent: whenever a call returns, a second call
\* on the returned value returns that same value, whether the first call
\* gave an ISO date or handed the text back unparsed.
C30_NormalizeDateIdempotent ==
    (nd_out # NotCalled /\ ~nd_out.raised)
        => NormalizeDate(scraper, nd_out.value) = nd_out

\* The same for every text but the one in which the replacement leaves a
\* new "Sept" behind.
C30_NormalizeDateIdempotentElsewhere ==
    (/\ nd_out # NotCalled
     /\ ~nd_out.raised
     /\ ~(scraper = "Calix" /\ nd_in.value = Str(Septt)))
        => NormalizeDate(scraper, nd_out.value) = nd_out

\* A call that returned a text it could not parse, and one that returned an
\* ISO date.
C30_ReachedUnparsed ==
    /\ nd_out # NotCalled
    /\ ~nd_out.raised
    /\ nd_in.day = None
    /\ nd_out.value.type = "str"
    /\ nd_out.value.text # <<>>

=============================================================================
